---- MODULE Spec2Model ----
(***************************************************************************)
(* A model of the request-resilience pipeline of xfetch:                   *)
(*   - Paginator.fetchAll with its resume checkpoint (lib/pagination.ts),  *)
(*   - RateLimiter.waitIfNeeded (lib/proxy.ts),                            *)
(*   - ProxyManager rotation and health tracking (lib/proxy.ts),           *)
(*   - ProxyManager construction and loadFromFile (lib/proxy.ts),          *)
(*   - SessionPool (lib/auth/pool.ts),                                     *)
(*   - QueryIdManager (lib/query-ids/index.ts),                            *)
(*   - the API calls of BaseClient and of its DM and notification mixins   *)
(*     (lib/client).                                                       *)
(* Each component has its own specification (SpecPaginator, SpecLimiter,   *)
(* SpecProxy, SpecLoad, SpecPool, SpecResolver, SpecClient); the variables *)
(* of the other components stay at their constructed values.               *)
(***************************************************************************)
EXTENDS Integers, Sequences, FiniteSets, TLC

VARIABLES
  \* ---- Paginator ----
  opt,        \* PaginationOptions: all, maxPages (0 = not given), resume, delay
  srv,        \* the remote collection behind the page-fetch function
  file,       \* the resume file: None or the CursorState it holds
  pc,         \* where the fetchAll call is: idle, fetching, sleeping, done, failed
  loc,        \* fetchAll's locals: allItems, cursor, hasMore, pageCount
  st,         \* this.state of the Paginator
  run,        \* number of fetchAll runs started (each on a new Paginator)
  log,        \* history of what the runs did, in order
  delivered,  \* what the caller received from each run that returned
  disk,       \* the file system under the resume file: whether reading it
              \* and writing it fail at the moment
  sm,         \* stream() over the same options and server: where the
              \* generator is, its locals, its state and its resume file
  \* ---- clock ----
  now,        \* Date.now(), in ms
  \* ---- RateLimiter ----
  limits,     \* this.limits: endpoint -> recorded RateLimitInfo, or absent
  rl,         \* the waitIfNeeded call: where it is and what it saw
  rlCalls,    \* number of waitIfNeeded calls made
  \* ---- ProxyManager ----
  pmOpt,        \* options: maxFailures, failureCooldownMs
  proxies,      \* this.proxies: the registered paths, in registration order
  status,       \* this.status: path -> failures, disabled, lastFailure
  currentIndex, \* this.currentIndex (0-based)
  pmRet,        \* the last ProxyManager call and what it returned
  streak,       \* results of the getNext calls made in a row on healthy paths
  owed,         \* per path: the getNext calls made since one found the path
                \* disabled with its cooldown over, and has not returned it
  \* ---- ProxyManager construction ----
  pfile,        \* the options given: proxy, proxyFile and the file's lines
  ld,           \* the construction / loadFromFile call and what it did
  \* ---- SessionPool ----
  sessions,     \* this.sessions: the pooled sessions, in order
  poolIndex,    \* this.currentIndex of the pool
  poolRet,      \* the last SessionPool call and what it returned
  served,       \* the entries returned by the getNext() calls made since the
                \* set of sessions not in cooldown last changed
  \* ---- QueryIdManager ----
  cache,        \* this.cache: null or {ids, fetchedAt}
  qRet,         \* the last QueryIdManager call and what it returned
  \* ---- BaseClient and its mixins ----
  cl,           \* the API call in progress: where it is and what it did
  clCalls,      \* number of API calls made
  pair          \* two API calls in progress at once on one client

pagVars == <<opt, srv, file, pc, loc, st, run, log, delivered, disk, sm>>

rlVars == <<limits, rl, rlCalls>>

pmVars == <<pmOpt, proxies, status, currentIndex, pmRet, streak, owed>>

loadVars == <<pfile, ld>>

poolVars == <<sessions, poolIndex, poolRet, served>>

qidVars == <<cache, qRet>>

clVars == <<cl, clCalls, pair>>

extVars == <<loadVars, poolVars, qidVars, clVars>>

vars == <<pagVars, now, rlVars, pmVars, extVars>>

\* ------------------------------------------------------------------ bounds
MaxPages == 3      \* pages of the remote collection: 1..MaxPages
MaxItems == 1      \* items per page: 0..MaxItems
MaxCap   == 3      \* --max-pages values tried: 0 (not given) .. MaxCap
MaxRuns  == 2      \* fetchAll runs against the same resume file

MaxNow       == 3000  \* the clock ticks freely up to here (ms)
ClockStep    == 1000  \* one tick of the clock (ms)
MaxReset     == 2     \* x-rate-limit-reset values tried: 0..MaxReset (s)
MaxRemaining == 6     \* x-rate-limit-remaining values tried: -1..MaxRemaining
MaxWaitCalls == 2     \* waitIfNeeded calls

MaxPaths     == 2     \* egress paths that can be registered
MaxThreshold == 2     \* maxFailures options tried: 1..MaxThreshold
CooldownMs   == 2     \* the failureCooldownMs option given (ms)
MaxLines     == 3     \* lines of a proxy file: 0..MaxLines
MaxLoads     == 2     \* loadFromFile calls on one manager

MaxSessions  == 2     \* sessions the pool can hold
MaxTokens    == 2     \* distinct authTokens: 1..MaxTokens
MaxGets      == 3     \* SessionPool.getNext calls that advance the index
MaxPoolReset == 1     \* resetTime values passed to markLimited: 0..MaxPoolReset (s)
MaxDays      == 1     \* the clock of the resolver ticks freely up to this many days
MaxId        == 2     \* query ids: 1..MaxId
MaxCalls     == 2     \* API calls made by the client

\* PaginationOptions.delay default (constructor)
DefaultDelay == 1000

None == [present |-> FALSE, cursor |-> 0, pagesFetched |-> 0, totalItems |-> 0]

\* A cursor is a number: 0 stands for undefined, c > 0 for the cursor that
\* page c returned (the page-fetch function answers it with page c + 1).
NoCursor == 0

\* ------------------------------------------------------------- the server
LastKinds == {"noMore", "noMoreWithCursor", "moreNoCursor"}

\* PaginatedResult of page i: items, cursor?, hasMore.  Only the last page
\* reports no further data, in one of the three ways a PaginatedResult can.
PageItems(i) ==
  IF i \in 1..srv.n THEN [j \in 1..srv.size[i] |-> <<i, j>>] ELSE <<>>

PageCursor(i) ==
  IF i < srv.n THEN i
  ELSE IF i = srv.n /\ srv.last = "noMoreWithCursor" THEN i
  ELSE NoCursor

PageHasMore(i) ==
  IF i < srv.n THEN TRUE
  ELSE i = srv.n /\ srv.last = "moreNoCursor"

\* fetchFn(cursor): the page the server answers a cursor with
PageOf(cursor) == cursor + 1

\* ------------------------------------------------------------- Paginator
\* const maxPages = this.options.maxPages || (this.options.all ? Infinity : 1)
\* and the loop test pageCount < maxPages
\* (variant: all takes precedence over a finite maxPages)
UnderCapAllFirst(pageCount) ==
  IF opt.all THEN TRUE
  ELSE IF opt.maxPages # 0 THEN pageCount < opt.maxPages
  ELSE pageCount < 1
UnderCap(pageCount) ==
  IF opt.maxPages # 0 THEN pageCount < opt.maxPages
  ELSE IF opt.all THEN TRUE
  ELSE pageCount < 1

\* hasMore = result.hasMore && !!result.cursor
\* (variant: the cursor test dropped)
ContinueAfterIgnoreCursor(i) == PageHasMore(i)
ContinueAfter(i) == PageHasMore(i) /\ PageCursor(i) # NoCursor

\* if (!hasMore || !this.options.all) this.clearState()
\* (variants: cleared on exhaustion only; cleared only under --all)
ShouldClearExhausted(hasMore) == ~hasMore
ShouldClearOnlyAll(hasMore) == ~hasMore /\ opt.all
ShouldClear(hasMore) == ~hasMore \/ ~opt.all

\* constructor: this.state = { pagesFetched: 0, totalItems: 0, ... }
InitState == [cursor |-> NoCursor, pagesFetched |-> 0, totalItems |-> 0]

\* stream() not yet called: its locals, this.state, the resume file as it
\* sees it, and the pages it asked for
SmIdle == [pc |-> "idle", cursor |-> NoCursor, hasMore |-> TRUE, pageCount |-> 0,
           st |-> InitState, file |-> None, calls |-> <<>>]

\* a file system on which reads and writes succeed
Healthy == [readFails |-> FALSE, writeFails |-> FALSE]

\* loadState(): the parsed file when a resume file is set and exists; null
\* when readFileSync or JSON.parse throws
\* (variants: the file is never found; a failed read is not caught and the
\* stored state is used all the same)
LoadStateNever == None
LoadStateTrusting == IF opt.resume /\ file.present THEN file ELSE None
LoadState == IF opt.resume /\ file.present /\ ~disk.readFails THEN file ELSE None

\* loadState() went into its catch block
ReadFailed == opt.resume /\ file.present /\ disk.readFails

\* saveState() went into its catch block
WriteFailed == opt.resume /\ disk.writeFails

\* saveState(cursor): the file after the call (the file as it was when
\* mkdirSync or writeFileSync throws)
\* (variants: the cursor of the call just made is stored instead of the
\* one passed; the page count is not stored)
SaveStateStale(cursor, s) ==
  IF ~opt.resume \/ disk.writeFails THEN file
  ELSE [present |-> TRUE, cursor |-> loc.cursor,
        pagesFetched |-> s.pagesFetched, totalItems |-> s.totalItems]
SaveStateDropCount(cursor, s) ==
  IF ~opt.resume \/ disk.writeFails THEN file
  ELSE [present |-> TRUE, cursor |-> cursor,
        pagesFetched |-> 0, totalItems |-> s.totalItems]
SaveState(cursor, s) ==
  IF ~opt.resume \/ disk.writeFails THEN file
  ELSE [present |-> TRUE, cursor |-> cursor,
        pagesFetched |-> s.pagesFetched, totalItems |-> s.totalItems]

\* clearState(): the file after the call (the file as it was when
\* unlinkSync throws)
ClearState(f) == IF ~opt.resume \/ disk.writeFails THEN f ELSE None

Ev(e, cur, page, n) == [e |-> e, cur |-> cur, page |-> page, n |-> n]

\* From the loop test on: either the next page-fetch call is made, or the
\* loop is left, the resume file cleared when complete, and the result
\* returned to the caller, who outputs result.items.
LoopHead(l, f, lg) ==
  IF l.hasMore /\ UnderCap(l.pageCount)
  THEN [pc |-> "fetching", file |-> f,
        log |-> Append(lg, Ev("call", l.cursor, PageOf(l.cursor), 0)),
        delivered |-> delivered]
  ELSE LET clr == ShouldClear(l.hasMore)
           f2  == IF clr THEN ClearState(f) ELSE f
           lg2 == IF clr /\ opt.resume /\ f.present
                  THEN Append(lg, Ev("clear", NoCursor, 0, 0)) ELSE lg
       IN [pc |-> "done", file |-> f2,
           log |-> Append(lg2, Ev("ret", NoCursor, 0, IF l.hasMore THEN 0 ELSE 1)),
           delivered |-> Append(delivered, l.allItems)]

\* if (hasMore && pageCount < maxPages && this.options.delay): the delay
\* sleep is taken after a page only when another page is to be fetched
\* (variant: it is taken after every page)
SleepsAfterAlways(l) == opt.delay # 0
SleepsAfter(l) == l.hasMore /\ UnderCap(l.pageCount) /\ opt.delay # 0

\* fetchAll up to its first await: locals, loadState, the first loop test
StartRun ==
  /\ pc \in {"idle", "done", "failed"}
  /\ run < MaxRuns
  /\ LET saved   == LoadState
         resumed == saved.present /\ saved.cursor # NoCursor
         s0      == IF saved.present
                    THEN [cursor |-> saved.cursor, pagesFetched |-> saved.pagesFetched,
                          totalItems |-> saved.totalItems]
                    ELSE InitState
         l0      == [allItems |-> <<>>,
                     cursor |-> IF resumed THEN saved.cursor ELSE NoCursor,
                     hasMore |-> TRUE,
                     pageCount |-> IF resumed THEN saved.pagesFetched ELSE 0]
         lg0     == Append(log, Ev("start", l0.cursor, 0, l0.pageCount))
         lg1     == IF ReadFailed THEN Append(lg0, Ev("readErr", NoCursor, 0, 0)) ELSE lg0
         nx      == LoopHead(l0, file, lg1)
     IN /\ run' = run + 1
        /\ st' = s0
        /\ loc' = l0
        /\ pc' = nx.pc
        /\ file' = nx.file
        /\ log' = nx.log
        /\ delivered' = nx.delivered
  /\ UNCHANGED <<opt, srv, disk, sm, now, rlVars, pmVars, extVars>>

\* The awaited fetchFn(cursor) resolves: append, count, checkpoint, then the
\* inter-page sleep or the next loop test.
FetchReturns ==
  /\ pc = "fetching"
  /\ LET i   == PageOf(loc.cursor)
         its == loc.allItems \o PageItems(i)
         l1  == [allItems |-> its,
                 cursor |-> PageCursor(i),
                 hasMore |-> ContinueAfter(i),
                 pageCount |-> loc.pageCount + 1]
         s1  == [st EXCEPT !.pagesFetched = l1.pageCount, !.totalItems = Len(its)]
         f1  == SaveState(l1.cursor, s1)
         lg1 == Append(Append(log, Ev("ok", loc.cursor, i, 0)), Ev("append", NoCursor, i, 0))
         lg2 == IF WriteFailed
                THEN Append(lg1, Ev("saveFail", l1.cursor, i, s1.pagesFetched))
                ELSE IF opt.resume
                THEN Append(lg1, Ev("save", f1.cursor, i, f1.pagesFetched)) ELSE lg1
     IN /\ st' = s1
        /\ loc' = l1
        /\ IF SleepsAfter(l1)
           THEN /\ pc' = "sleeping"
                /\ file' = f1
                /\ log' = Append(lg2, Ev("sleep", NoCursor, 0, opt.delay))
                /\ UNCHANGED delivered
           ELSE LET nx == LoopHead(l1, f1, lg2)
                IN /\ pc' = nx.pc
                   /\ file' = nx.file
                   /\ log' = nx.log
                   /\ delivered' = nx.delivered
  /\ UNCHANGED <<opt, srv, disk, sm, run, now, rlVars, pmVars, extVars>>

\* The inter-page sleep is over: back to the loop test.
SleepDone ==
  /\ pc = "sleeping"
  /\ LET nx == LoopHead(loc, file, log)
     IN /\ pc' = nx.pc
        /\ file' = nx.file
        /\ log' = nx.log
        /\ delivered' = nx.delivered
  /\ UNCHANGED <<opt, srv, disk, sm, run, loc, st, now, rlVars, pmVars, extVars>>

\* The awaited fetchFn(cursor) rejects: catch, saveState(cursor), rethrow.
FetchThrows ==
  /\ pc = "fetching"
  /\ LET f1  == SaveState(loc.cursor, st)
         lg1 == Append(log, Ev("fail", loc.cursor, PageOf(loc.cursor), 0))
         lg2 == IF WriteFailed
                THEN Append(lg1, Ev("saveFail", loc.cursor, 0, st.pagesFetched))
                ELSE IF opt.resume
                THEN Append(lg1, Ev("saveErr", f1.cursor, 0, f1.pagesFetched)) ELSE lg1
     IN /\ file' = f1
        /\ log' = Append(lg2, Ev("throw", NoCursor, 0, 0))
  /\ pc' = "failed"
  /\ UNCHANGED <<opt, srv, disk, sm, run, loc, st, delivered, now, rlVars, pmVars, extVars>>

\* the state after construction, one component at a time
ClockStart == now = 0

PaginatorIdle ==
  /\ opt = [all |-> FALSE, maxPages |-> 0, resume |-> FALSE, delay |-> DefaultDelay]
  /\ srv = [n |-> 1, last |-> "noMore", size |-> [i \in 1..1 |-> 0]]
  /\ file = None
  /\ pc = "idle"
  /\ loc = [allItems |-> <<>>, cursor |-> NoCursor, hasMore |-> TRUE, pageCount |-> 0]
  /\ st = InitState
  /\ run = 0
  /\ log = <<>>
  /\ delivered = <<>>
  /\ disk = Healthy
  /\ sm = SmIdle

NoLimit == [present |-> FALSE, remaining |-> 0, reset |-> 0]

\* the endpoints (operation names) the limiter is asked about
Endpoints == {"UserTweets"}

RlIdle == [pc |-> "idle", ep |-> "UserTweets", had |-> FALSE, remaining |-> 0,
           reset |-> 0, calledAt |-> 0, wakeAt |-> 0, slept |-> FALSE, retAt |-> 0]

\* private limits: Map<string, EndpointLimit> = new Map()
LimiterNew ==
  /\ limits = [e \in Endpoints |-> NoLimit]
  /\ rl = RlIdle
  /\ rlCalls = 0

Urls == 1..MaxPaths

\* a path's ProxyStatus at registration: failures 0, not disabled, no
\* lastFailure (-1).  lastSuccess is written and never read.
FreshStatus == [failures |-> 0, disabled |-> FALSE, lastFailure |-> -1]

NoRet == [op |-> "none", url |-> 0, early |-> FALSE, amnesty |-> FALSE]

\* nothing owed to a path: calls -1.  Otherwise calls counts the getNext
\* calls, and failed tells whether markFailed hit the path meanwhile.
NoOwed == [calls |-> -1, failed |-> FALSE]

\* new ProxyManager() with no path registered yet, default options
ManagerIdle ==
  /\ pmOpt = [maxFailures |-> 1, cooldown |-> 1]
  /\ proxies = <<>>
  /\ status = [u \in Urls |-> FreshStatus]
  /\ currentIndex = 0
  /\ pmRet = NoRet
  /\ streak = <<>>
  /\ owed = [u \in Urls |-> NoOwed]

\* ---- the further components, as constructed ----
\* A line of a proxy file, or the proxy option string: blank, a '#' comment,
\* a string that parseProxyUrl rejects (bad), or a path spec (spec) written
\* with or without its scheme, naming the path whose normalized URL is url.
BlankLine == [kind |-> "blank", scheme |-> FALSE, url |-> 0]

\* no proxy option and no proxy file given
NoProxyOptions == [proxy |-> BlankLine, hasFile |-> FALSE, exists |-> FALSE, lines |-> <<>>]

LdIdle == [pc |-> "built", threw |-> "none", warnings |-> 0, before |-> <<>>, loads |-> 0]

LoaderIdle ==
  /\ pfile = NoProxyOptions
  /\ ld = LdIdle

NoPoolRet == [op |-> "none", idx |-> 0, token |-> 0, fallback |-> FALSE, arg |-> 0]

\* private sessions: PooledSession[] = []; private currentIndex = 0
PoolIdle ==
  /\ sessions = <<>>
  /\ poolIndex = 0
  /\ poolRet = NoPoolRet
  /\ served = <<>>

\* the operation names asked for: one that the static table knows, one
\* that only a refreshed bundle can bring
Ops == {"UserTweets", "CommunityTweets"}

\* a table of query ids: operation name -> id (0: no entry)
NoIds == [o \in Ops |-> 0]

\* private cache: CachedQueryIds | null = null
\* (hasIds: the object has an ids table; what JSON.parse made of the cache
\* file may lack it)
NoCache == [present |-> FALSE, hasIds |-> TRUE, ids |-> NoIds, fetchedAt |-> 0]

\* the last call on the manager: its operation and argument, what it
\* returned or threw, and what it did on the way (the matches found in the
\* bundle, the record written to the cache file, the network requests made)
NoQRet == [op |-> "none", name |-> "UserTweets", id |-> 0, threw |-> FALSE,
           table |-> NoIds, outcome |-> "none", valid |-> FALSE,
           found |-> NoIds, written |-> NoCache, requested |-> 0]

ResolverIdle ==
  /\ cache = NoCache
  /\ qRet = NoQRet

ClIdle == [pc |-> "idle", kind |-> "graphql", waited |-> FALSE, wakeAt |-> 0,
           used |-> 0, cur |-> 0, marks |-> <<>>, rotations |-> 0, updated |-> FALSE,
           resp |-> [transport |-> FALSE, code |-> 0, remaining |-> 0, reset |-> 0,
                     body |-> "none"],
           result |-> "none",
           err |-> [kind |-> "none", withStatus |-> FALSE, body |-> "none"],
           prevUsed |-> 0, prevFailed |-> FALSE]

\* the two callers of the client, and a call not yet made
Callers == {1, 2}

PairIdle == [pc |-> "idle", kind |-> "graphql", began |-> 0, nth |-> 0, wakeAt |-> 0,
             used |-> 0, cur |-> 0, result |-> "none", failed |-> FALSE]

ClientIdle ==
  /\ cl = ClIdle
  /\ clCalls = 0
  /\ pair = [i \in Callers |-> PairIdle]

ExtIdle ==
  /\ LoaderIdle
  /\ PoolIdle
  /\ ResolverIdle
  /\ ClientIdle

InitPaginator ==
  /\ ClockStart
  /\ ExtIdle
  /\ LimiterNew
  /\ ManagerIdle
  /\ opt \in [all : BOOLEAN, maxPages : 0..MaxCap, resume : BOOLEAN,
              delay : {0, DefaultDelay}]
  /\ \E n \in 1..MaxPages :
       srv \in [n : {n}, last : LastKinds, size : [1..n -> 0..MaxItems]]
  /\ file = None
  /\ pc = "idle"
  /\ loc = [allItems |-> <<>>, cursor |-> NoCursor, hasMore |-> TRUE, pageCount |-> 0]
  /\ st = InitState
  /\ run = 0
  /\ log = <<>>
  /\ delivered = <<>>
  /\ disk = Healthy
  /\ sm = SmIdle

NextPaginator ==
  \/ StartRun
  \/ FetchReturns
  \/ SleepDone
  \/ FetchThrows

SpecPaginator == InitPaginator /\ [][NextPaginator]_vars

\* ---- the paginator over a resume file that can fail to be read or written
\* between two runs, the file system changes its mind
DiskChanges ==
  /\ pc \in {"done", "failed"}
  /\ run < MaxRuns
  /\ disk' \in [readFails : BOOLEAN, writeFails : BOOLEAN] \ {disk}
  /\ UNCHANGED <<opt, srv, file, pc, loc, st, run, log, delivered, sm, now, rlVars,
                 pmVars, extVars>>

\* a paginator with a resume file and no delay, over pages of equal size
InitPaginatorIO ==
  /\ ClockStart
  /\ ExtIdle
  /\ LimiterNew
  /\ ManagerIdle
  /\ opt \in [all : BOOLEAN, maxPages : 0..MaxCap, resume : {TRUE}, delay : {0}]
  /\ \E n \in 1..MaxPages :
       srv \in [n : {n}, last : LastKinds, size : {[i \in 1..n |-> MaxItems]}]
  /\ file = None
  /\ pc = "idle"
  /\ loc = [allItems |-> <<>>, cursor |-> NoCursor, hasMore |-> TRUE, pageCount |-> 0]
  /\ st = InitState
  /\ run = 0
  /\ log = <<>>
  /\ delivered = <<>>
  /\ disk \in [readFails : BOOLEAN, writeFails : BOOLEAN]
  /\ sm = SmIdle

NextPaginatorIO ==
  \/ StartRun
  \/ FetchReturns
  \/ FetchThrows
  \/ DiskChanges

SpecPaginatorIO == InitPaginatorIO /\ [][NextPaginatorIO]_vars

\* ---- stream() beside fetchAll(): the same options, the same resume file
\* at the start, the same server; the consumer takes every page
\* loadState() and saveState(cursor) of the Paginator that streams
StreamLoadState == IF opt.resume /\ sm.file.present /\ ~disk.readFails THEN sm.file ELSE None

StreamSaveState(cursor, s) ==
  IF ~opt.resume \/ disk.writeFails THEN sm.file
  ELSE [present |-> TRUE, cursor |-> cursor,
        pagesFetched |-> s.pagesFetched, totalItems |-> s.totalItems]

\* stream() from its loop test on: the next page-fetch call, or the end of
\* the generator, which clears the resume file if (!hasMore)
StreamLoopHead(m) ==
  IF m.hasMore /\ UnderCap(m.pageCount)
  THEN [m EXCEPT !.pc = "fetching", !.calls = Append(m.calls, PageOf(m.cursor))]
  ELSE [m EXCEPT !.pc = "done",
                 !.file = IF ~m.hasMore THEN ClearState(m.file) ELSE m.file]

\* stream() up to its first await: locals, loadState, the first loop test
StreamStart ==
  /\ sm.pc = "idle"
  /\ LET saved   == StreamLoadState
         resumed == saved.present /\ saved.cursor # NoCursor
         m0      == [sm EXCEPT
                       !.st = IF saved.present
                              THEN [cursor |-> saved.cursor,
                                    pagesFetched |-> saved.pagesFetched,
                                    totalItems |-> saved.totalItems]
                              ELSE InitState,
                       !.cursor = IF resumed THEN saved.cursor ELSE NoCursor,
                       !.pageCount = IF resumed THEN saved.pagesFetched ELSE 0]
     IN sm' = StreamLoopHead(m0)
  /\ UNCHANGED <<opt, srv, file, pc, loc, st, run, log, delivered, disk, now, rlVars,
                 pmVars, extVars>>

\* the awaited fetchFn(cursor) resolves: count, yield the page to the
\* consumer, checkpoint, then the inter-page sleep or the next loop test
StreamFetchReturns ==
  /\ sm.pc = "fetching"
  /\ LET i  == PageOf(sm.cursor)
         s1 == [sm.st EXCEPT !.pagesFetched = sm.pageCount + 1,
                             !.totalItems = sm.st.totalItems + Len(PageItems(i))]
         m1 == [sm EXCEPT !.pageCount = sm.pageCount + 1,
                          !.st = s1,
                          !.hasMore = ContinueAfter(i),
                          !.cursor = PageCursor(i),
                          !.file = StreamSaveState(PageCursor(i), s1)]
     IN sm' = IF SleepsAfter(m1) THEN [m1 EXCEPT !.pc = "sleeping"]
              ELSE StreamLoopHead(m1)
  /\ UNCHANGED <<opt, srv, file, pc, loc, st, run, log, delivered, disk, now, rlVars,
                 pmVars, extVars>>

\* the inter-page sleep of stream() is over: back to the loop test
StreamSleepDone ==
  /\ sm.pc = "sleeping"
  /\ sm' = StreamLoopHead(sm)
  /\ UNCHANGED <<opt, srv, file, pc, loc, st, run, log, delivered, disk, now, rlVars,
                 pmVars, extVars>>

\* one fetchAll() call on its own Paginator
FetchAllOnce ==
  /\ run = 0
  /\ StartRun

\* the resume file before the two calls: none, or the checkpoint of a fetch
\* that was stopped after k pages
Checkpoint(k) ==
  [present |-> TRUE, cursor |-> k, pagesFetched |-> k,
   totalItems |-> k * MaxItems]

InitStream ==
  /\ ClockStart
  /\ ExtIdle
  /\ LimiterNew
  /\ ManagerIdle
  /\ opt \in [all : BOOLEAN, maxPages : 0..MaxCap, resume : BOOLEAN,
              delay : {0, DefaultDelay}]
  /\ \E n \in 1..MaxPages :
       srv \in [n : {n}, last : LastKinds, size : {[i \in 1..n |-> MaxItems]}]
  /\ file \in {None} \cup {Checkpoint(k) : k \in 1..(srv.n - 1)}
  /\ pc = "idle"
  /\ loc = [allItems |-> <<>>, cursor |-> NoCursor, hasMore |-> TRUE, pageCount |-> 0]
  /\ st = InitState
  /\ run = 0
  /\ log = <<>>
  /\ delivered = <<>>
  /\ disk = Healthy
  /\ sm = [SmIdle EXCEPT !.file = file]

NextStream ==
  \/ FetchAllOnce
  \/ FetchReturns
  \/ SleepDone
  \/ StreamStart
  \/ StreamFetchReturns
  \/ StreamSleepDone

SpecStream == InitStream /\ [][NextStream]_vars

\* ----------------------------------------------------------- RateLimiter
\* private backoffMs: number = 60000
BackoffMs == 60000

\* the low-quota threshold of waitIfNeeded
LowRemaining == 5

\* the 1 s buffer added to the wait until reset
ResetBufferMs == 1000

MsPerSecond == 1000

\* update(endpoint, info): this.limits.set(endpoint, {info, lastUpdated})
\* (lastUpdated is stored and never read)
RLUpdate ==
  \E e \in Endpoints, rem \in -1..MaxRemaining, rs \in 0..MaxReset :
    /\ limits' = [limits EXCEPT ![e] = [present |-> TRUE, remaining |-> rem, reset |-> rs]]
    /\ UNCHANGED <<rl, rlCalls, now, pagVars, pmVars, extVars>>

\* What waitIfNeeded(endpoint) decides at time t for the recorded limit:
\* whether it drops the record, and how long it sleeps (ms; -1: no sleep).
\* (variants: the 1 s buffer subtracted instead of added; the backoff not
\* divided by remaining; the stale record kept)
WaitPlanEarly(limit, t) ==
  IF ~limit.present THEN [drop |-> FALSE, ms |-> -1]
  ELSE IF limit.remaining > LowRemaining THEN [drop |-> FALSE, ms |-> -1]
  ELSE IF t > limit.reset * MsPerSecond THEN [drop |-> TRUE, ms |-> -1]
  ELSE IF limit.remaining <= 0
       THEN [drop |-> FALSE, ms |-> limit.reset * MsPerSecond - t - ResetBufferMs]
  ELSE [drop |-> FALSE, ms |-> BackoffMs \div limit.remaining]
WaitPlanFlat(limit, t) ==
  IF ~limit.present THEN [drop |-> FALSE, ms |-> -1]
  ELSE IF limit.remaining > LowRemaining THEN [drop |-> FALSE, ms |-> -1]
  ELSE IF t > limit.reset * MsPerSecond THEN [drop |-> TRUE, ms |-> -1]
  ELSE IF limit.remaining <= 0
       THEN [drop |-> FALSE, ms |-> limit.reset * MsPerSecond - t + ResetBufferMs]
  ELSE [drop |-> FALSE, ms |-> BackoffMs]
WaitPlanKeeps(limit, t) ==
  IF ~limit.present THEN [drop |-> FALSE, ms |-> -1]
  ELSE IF limit.remaining > LowRemaining THEN [drop |-> FALSE, ms |-> -1]
  ELSE IF t > limit.reset * MsPerSecond THEN [drop |-> FALSE, ms |-> -1]
  ELSE IF limit.remaining <= 0
       THEN [drop |-> FALSE, ms |-> limit.reset * MsPerSecond - t + ResetBufferMs]
  ELSE [drop |-> FALSE, ms |-> BackoffMs \div limit.remaining]
WaitPlan(limit, t) ==
  IF ~limit.present THEN [drop |-> FALSE, ms |-> -1]
  ELSE IF limit.remaining > LowRemaining THEN [drop |-> FALSE, ms |-> -1]
  ELSE IF t > limit.reset * MsPerSecond THEN [drop |-> TRUE, ms |-> -1]
  ELSE IF limit.remaining <= 0
       THEN [drop |-> FALSE, ms |-> limit.reset * MsPerSecond - t + ResetBufferMs]
  ELSE [drop |-> FALSE, ms |-> BackoffMs \div limit.remaining]

\* waitIfNeeded(endpoint) up to its await (or its return)
RLCall ==
  /\ rl.pc \in {"idle", "returned"}
  /\ rlCalls < MaxWaitCalls
  /\ \E e \in Endpoints :
       LET limit == limits[e]
           plan  == WaitPlan(limit, now)
           seen  == [RlIdle EXCEPT !.ep = e, !.had = limit.present,
                                   !.remaining = limit.remaining, !.reset = limit.reset,
                                   !.calledAt = now]
       IN /\ limits' = IF plan.drop THEN [limits EXCEPT ![e] = NoLimit] ELSE limits
          /\ rl' = IF plan.ms < 0
                   THEN [seen EXCEPT !.pc = "returned", !.retAt = now]
                   ELSE [seen EXCEPT !.pc = "sleeping", !.slept = TRUE,
                                     !.wakeAt = now + plan.ms]
  /\ rlCalls' = rlCalls + 1
  /\ UNCHANGED <<now, pagVars, pmVars, extVars>>

\* the setTimeout of sleep(ms) fires, not before its time: the call returns
RLWake ==
  /\ rl.pc = "sleeping"
  /\ now >= rl.wakeAt
  /\ rl' = [rl EXCEPT !.pc = "returned", !.retAt = now]
  /\ UNCHANGED <<limits, rlCalls, now, pagVars, pmVars, extVars>>

\* time passes: a tick, or straight to the moment the sleeping call is due
\* (variant: the clock stops at MaxNow)
RLTickStalls ==
  /\ now < MaxNow /\ now' = now + ClockStep
  /\ UNCHANGED <<limits, rl, rlCalls, pagVars, pmVars, extVars>>
RLTick ==
  /\ \/ now < MaxNow /\ now' = now + ClockStep
     \/ rl.pc = "sleeping" /\ rl.wakeAt > now /\ now' = rl.wakeAt
  /\ UNCHANGED <<limits, rl, rlCalls, pagVars, pmVars, extVars>>

InitLimiter ==
  /\ ClockStart
  /\ ExtIdle
  /\ PaginatorIdle
  /\ LimiterNew
  /\ ManagerIdle

NextLimiter ==
  \/ RLUpdate
  \/ RLCall
  \/ RLWake
  \/ RLTick

SpecLimiter == InitLimiter /\ [][NextLimiter]_vars

\* the same under a fair clock: time keeps passing and a timer that is due
\* fires
SpecLimiterFair ==
  InitLimiter /\ [][NextLimiter]_vars /\ WF_vars(RLTick) /\ WF_vars(RLWake)

\* ---------------------------------------------------------- ProxyManager
Registered == {proxies[k] : k \in DOMAIN proxies}

\* elapsed >= this.options.failureCooldownMs
\* (variant: off by one ms)
CooldownOverEarly(elapsed) == elapsed >= pmOpt.cooldown - 1
CooldownOver(elapsed) == elapsed >= pmOpt.cooldown

\* the path is disabled and its cooldown window has elapsed at time t
CooledDown(u, t) ==
  /\ u \in Registered
  /\ status[u].disabled
  /\ status[u].lastFailure >= 0
  /\ t - status[u].lastFailure >= pmOpt.cooldown

\* getAvailableProxies(): the status map after the call (paths whose
\* cooldown has passed are re-enabled with failures 0) ...
\* (variant: the failure count is kept)
StatusAfterAvailKeepsCount(t) ==
  [u \in Urls |->
     IF /\ u \in Registered
        /\ status[u].disabled
        /\ status[u].lastFailure >= 0
        /\ CooldownOver(t - status[u].lastFailure)
     THEN [status[u] EXCEPT !.disabled = FALSE]
     ELSE status[u]]
StatusAfterAvail(t) ==
  [u \in Urls |->
     IF /\ u \in Registered
        /\ status[u].disabled
        /\ status[u].lastFailure >= 0
        /\ CooldownOver(t - status[u].lastFailure)
     THEN [status[u] EXCEPT !.disabled = FALSE, !.failures = 0]
     ELSE status[u]]

\* ... and the list it returns
AvailableProxies(t) ==
  LET after == StatusAfterAvail(t)
      Ok(u) == ~after[u].disabled
  IN SelectSeq(proxies, Ok)

\* resetAllProxies()
\* (variant: the failure counts are kept)
ResetAllFlagOnly(stat) ==
  [u \in Urls |->
     IF u \in Registered THEN [stat[u] EXCEPT !.disabled = FALSE]
     ELSE stat[u]]
ResetAll(stat) ==
  [u \in Urls |->
     IF u \in Registered THEN [stat[u] EXCEPT !.disabled = FALSE, !.failures = 0]
     ELSE stat[u]]

\* this.currentIndex = (this.currentIndex + 1) % this.proxies.length
\* (variant: the index is not advanced)
NextIndexStuck(i, n) == i % n
NextIndex(i, n) == (i + 1) % n

\* the round-robin loop of getNext(): from index i, after `attempts` tries
\* (variant: the path at the index is taken whatever its health)
ScanBlind(stat, i, attempts) ==
  [url |-> proxies[(i % Len(proxies)) + 1], index |-> NextIndex(i, Len(proxies))]
RECURSIVE Scan(_, _, _)
Scan(stat, i, attempts) ==
  LET n == Len(proxies)
  IN IF attempts >= n THEN [url |-> 0, index |-> i]
     ELSE LET proxy == proxies[(i % n) + 1]
              j     == NextIndex(i, n)
          IN IF ~stat[proxy].disabled THEN [url |-> proxy, index |-> j]
             ELSE Scan(stat, j, attempts + 1)

\* the path is disabled and its cooldown window has not elapsed at time t
CoolingDown(u, t) ==
  /\ status[u].disabled
  /\ status[u].lastFailure >= 0
  /\ t - status[u].lastFailure < pmOpt.cooldown

AllEnabled == \A u \in Registered : ~status[u].disabled

\* addProxy(url): duplicates are ignored.  Paths are numbered in the order
\* of their registration.
AddProxy ==
  \E u \in Urls :
    /\ u <= Len(proxies) + 1
    /\ IF u \in Registered
       THEN UNCHANGED <<proxies, status>>
       ELSE /\ proxies' = Append(proxies, u)
            /\ status' = [status EXCEPT ![u] = FreshStatus]
    /\ pmRet' = NoRet
    /\ streak' = <<>>
    /\ UNCHANGED <<pmOpt, currentIndex, owed, now, pagVars, rlVars, extVars>>

\* getNext()
GetNext ==
  /\ IF Len(proxies) = 0
     THEN /\ pmRet' = [NoRet EXCEPT !.op = "getNext"]
          /\ UNCHANGED <<status, currentIndex>>
     ELSE LET after == StatusAfterAvail(now)
              avail == AvailableProxies(now)
          IN IF Len(avail) = 0
             THEN /\ status' = ResetAll(after)
                  /\ pmRet' = [op |-> "getNext", url |-> proxies[1],
                               early |-> CoolingDown(proxies[1], now),
                               amnesty |-> TRUE]
                  /\ UNCHANGED currentIndex
             ELSE LET r == Scan(after, currentIndex, 0)
                      got == IF r.url # 0 THEN r.url ELSE avail[1]
                  IN /\ status' = after
                     /\ currentIndex' = r.index
                     /\ pmRet' = [op |-> "getNext", url |-> got,
                                  early |-> CoolingDown(got, now),
                                  amnesty |-> FALSE]
  /\ streak' = IF Len(proxies) > 0 /\ AllEnabled
               THEN (IF Len(streak) > Len(proxies)
                     THEN Tail(streak) ELSE streak) \o <<pmRet'.url>>
               ELSE <<>>
  /\ owed' = [u \in Urls |->
                IF pmRet'.url = u THEN NoOwed
                ELSE IF CooledDown(u, now) THEN [calls |-> 1, failed |-> FALSE]
                ELSE IF owed[u].calls >= 0 /\ owed[u].calls < Len(proxies)
                THEN [owed[u] EXCEPT !.calls = @ + 1]
                ELSE owed[u]]
  /\ UNCHANGED <<pmOpt, proxies, now, pagVars, rlVars, extVars>>

\* getCurrent()
GetCurrent ==
  /\ pmRet' = [NoRet EXCEPT !.op = "getCurrent",
                            !.url = IF Len(proxies) = 0 THEN 0
                                    ELSE proxies[(currentIndex % Len(proxies)) + 1]]
  /\ UNCHANGED <<pmOpt, proxies, status, currentIndex, streak, owed, now, pagVars, rlVars,
                 extVars>>

\* markFailed(url)
MarkFailed ==
  \E u \in Urls :
    /\ status[u].failures <= pmOpt.maxFailures  \* followed one past the threshold
    /\ IF u \notin Registered
       THEN UNCHANGED status
       ELSE LET f == status[u].failures + 1
            IN status' = [status EXCEPT ![u] =
                            [failures |-> f,
                             disabled |-> (status[u].disabled \/ f >= pmOpt.maxFailures),
                             lastFailure |-> now]]
    /\ pmRet' = NoRet
    /\ streak' = <<>>
    /\ owed' = IF owed[u].calls >= 0 THEN [owed EXCEPT ![u].failed = TRUE] ELSE owed
    /\ UNCHANGED <<pmOpt, proxies, currentIndex, now, pagVars, rlVars, extVars>>

\* markSuccess(url)
\* (variant: the failure count is kept)
MarkSuccessFlagOnly ==
  \E u \in Urls :
    /\ IF u \notin Registered
       THEN UNCHANGED status
       ELSE status' = [status EXCEPT ![u].disabled = FALSE]
    /\ pmRet' = NoRet
    /\ streak' = <<>>
    /\ UNCHANGED <<pmOpt, proxies, currentIndex, owed, now, pagVars, rlVars, extVars>>
MarkSuccess ==
  \E u \in Urls :
    /\ IF u \notin Registered
       THEN UNCHANGED status
       ELSE status' = [status EXCEPT ![u].failures = 0, ![u].disabled = FALSE]
    /\ pmRet' = NoRet
    /\ streak' = <<>>
    /\ UNCHANGED <<pmOpt, proxies, currentIndex, owed, now, pagVars, rlVars, extVars>>

\* getStats(): counts getAvailableProxies()
GetStats ==
  /\ status' = StatusAfterAvail(now)
  /\ pmRet' = [op |-> "getStats", url |-> Len(AvailableProxies(now)),
               early |-> \E k \in DOMAIN AvailableProxies(now) :
                            CoolingDown(AvailableProxies(now)[k], now),
               amnesty |-> FALSE]
  /\ streak' = IF AllEnabled THEN streak ELSE <<>>
  /\ UNCHANGED <<pmOpt, proxies, currentIndex, owed, now, pagVars, rlVars, extVars>>

\* time passes
PMTick ==
  /\ now < pmOpt.cooldown  \* followed until a cooldown started at 0 is over
  /\ now' = now + 1
  /\ UNCHANGED <<pmVars, pagVars, rlVars, extVars>>

InitProxy ==
  /\ ClockStart
  /\ ExtIdle
  /\ PaginatorIdle
  /\ LimiterNew
  /\ pmOpt \in [maxFailures : 1..MaxThreshold, cooldown : {CooldownMs}]
  /\ proxies = <<>>
  /\ status = [u \in Urls |-> FreshStatus]
  /\ currentIndex = 0
  /\ pmRet = NoRet
  /\ streak = <<>>
  /\ owed = [u \in Urls |-> NoOwed]

NextProxy ==
  \/ AddProxy
  \/ GetNext
  \/ GetCurrent
  \/ MarkFailed
  \/ MarkSuccess
  \/ GetStats
  \/ PMTick

SpecProxy == InitProxy /\ [][NextProxy]_vars

\* ------------------------------------- ProxyManager: construction, files
CommentLine == [kind |-> "comment", scheme |-> FALSE, url |-> 0]

BadLine == [kind |-> "bad", scheme |-> FALSE, url |-> 0]

SpecLines == [kind : {"spec"}, scheme : BOOLEAN, url : Urls]

Lines == {BlankLine, CommentLine, BadLine} \cup SpecLines

\* parseProxyUrl(url): "http://" is put in front of a string without "://",
\* so both spellings of a path give the same normalized URL; a string that
\* new URL() or decodeURIComponent() rejects gives an error.
\* (variant: the two spellings are told apart)
ParseProxyUrlBySpelling(line) ==
  IF line.kind = "spec"
  THEN [ok |-> TRUE, url |-> IF line.scheme THEN line.url ELSE (line.url % MaxPaths) + 1]
  ELSE [ok |-> FALSE, url |-> 0]
ParseProxyUrl(line) ==
  IF line.kind = "spec" THEN [ok |-> TRUE, url |-> line.url]
  ELSE [ok |-> FALSE, url |-> 0]

\* addProxy(url) for a parsed url: duplicates are ignored
Pushed(ps, u) ==
  IF \E k \in DOMAIN ps : ps[k] = u THEN ps ELSE Append(ps, u)

\* the for loop of loadFromFile: blank lines and comments are skipped, a
\* line that addProxy rejects costs one console.warn
\* (variant: the first rejected line ends the loop)
RECURSIVE LoadLinesAbort(_, _, _)
LoadLinesAbort(lines, ps, w) ==
  IF lines = <<>> THEN [proxies |-> ps, warnings |-> w]
  ELSE LET line == Head(lines)
       IN IF line.kind \in {"blank", "comment"} THEN LoadLinesAbort(Tail(lines), ps, w)
          ELSE IF ~ParseProxyUrl(line).ok THEN [proxies |-> ps, warnings |-> w + 1]
          ELSE LoadLinesAbort(Tail(lines), Pushed(ps, ParseProxyUrl(line).url), w)
RECURSIVE LoadLines(_, _, _)
LoadLines(lines, ps, w) ==
  IF lines = <<>> THEN [proxies |-> ps, warnings |-> w]
  ELSE LET line == Head(lines)
       IN IF line.kind \in {"blank", "comment"} THEN LoadLines(Tail(lines), ps, w)
          ELSE IF ~ParseProxyUrl(line).ok THEN LoadLines(Tail(lines), ps, w + 1)
          ELSE LoadLines(Tail(lines), Pushed(ps, ParseProxyUrl(line).url), w)

\* loadFromFile(filePath) on the paths ps: the call's outcome
LoadFromFileOn(ps) ==
  IF ~pfile.exists
  THEN [pc |-> "threw", threw |-> "fileNotFound", proxies |-> ps, warnings |-> 0]
  ELSE LET r == LoadLines(pfile.lines, ps, 0)
       IN [pc |-> "built", threw |-> "none", proxies |-> r.proxies, warnings |-> r.warnings]

\* new ProxyManager(options): addProxy(options.proxy) when given, then
\* loadFromFile(options.proxyFile) when given
Construct ==
  /\ ld.pc = "new"
  /\ LET opt1 == pfile.proxy
         p1   == IF opt1.kind = "blank" THEN proxies
                 ELSE IF ParseProxyUrl(opt1).ok
                 THEN Pushed(proxies, ParseProxyUrl(opt1).url) ELSE proxies
         r    == IF pfile.hasFile THEN LoadFromFileOn(p1)
                 ELSE [pc |-> "built", threw |-> "none", proxies |-> p1, warnings |-> 0]
     IN IF opt1.kind # "blank" /\ ~ParseProxyUrl(opt1).ok
        THEN /\ ld' = [ld EXCEPT !.pc = "threw", !.threw = "proxyOption"]
             /\ UNCHANGED proxies
        ELSE /\ ld' = [pc |-> r.pc, threw |-> r.threw, warnings |-> r.warnings,
                       before |-> p1, loads |-> IF pfile.hasFile THEN 1 ELSE 0]
             /\ proxies' = r.proxies
  /\ UNCHANGED <<pfile, pmOpt, status, currentIndex, pmRet, streak, owed, now,
                 pagVars, rlVars, poolVars, qidVars, clVars>>

\* loadFromFile(filePath), called on the constructed manager
LoadFromFile ==
  /\ ld.pc = "built"
  /\ pfile.hasFile
  /\ ld.loads < MaxLoads
  /\ LET r == LoadFromFileOn(proxies)
     IN /\ ld' = [pc |-> r.pc, threw |-> r.threw, warnings |-> r.warnings,
                  before |-> proxies, loads |-> ld.loads + 1]
        /\ proxies' = r.proxies
  /\ UNCHANGED <<pfile, pmOpt, status, currentIndex, pmRet, streak, owed, now,
                 pagVars, rlVars, poolVars, qidVars, clVars>>

\* the files tried: up to MaxLines lines
Files == UNION {[1..n -> Lines] : n \in 0..MaxLines}

InitLoad ==
  /\ ClockStart
  /\ PaginatorIdle
  /\ LimiterNew
  /\ ManagerIdle
  /\ PoolIdle
  /\ ResolverIdle
  /\ ClientIdle
  /\ ld = [LdIdle EXCEPT !.pc = "new"]
  /\ \E o \in {BlankLine, BadLine} \cup SpecLines :
       \/ pfile = [NoProxyOptions EXCEPT !.proxy = o]
       \/ pfile = [NoProxyOptions EXCEPT !.proxy = o, !.hasFile = TRUE]
       \/ \E f \in Files :
            pfile = [proxy |-> o, hasFile |-> TRUE, exists |-> TRUE, lines |-> f]

NextLoad ==
  \/ Construct
  \/ LoadFromFile

SpecLoad == InitLoad /\ [][NextLoad]_vars

\* ----------------------------------------------------------- SessionPool
\* pooledSession.cooldownUntil = Date.now() + 24 * 60 * 60 * 1000
PoolCooldownMs == 24 * 60 * 60 * 1000

Tokens == 1..MaxTokens

\* add(session): {...session, rateLimits: new Map(), lastUsed: 0}.
\* cooldownUntil 0 stands for undefined; limitedAt is the time of the last
\* markLimited on the entry (-1: none), kept for the properties.  lastUsed
\* and rateLimits are written and never read.
FreshSession(tk) == [token |-> tk, cooldownUntil |-> 0, limitedAt |-> -1]

\* the filter of getNext() and getAvailableCount():
\* !s.cooldownUntil || s.cooldownUntil < now
Available(s, t) == s.cooldownUntil = 0 \/ s.cooldownUntil < t

\* indices (1-based) of the sessions the filter keeps, in order
AvailableIdx(t) ==
  LET all == [i \in 1..Len(sessions) |-> i]
      Ok(i) == Available(sessions[i], t)
  IN SelectSeq(all, Ok)

\* [...this.sessions].sort((a, b) => (a.cooldownUntil || 0) - (b.cooldownUntil || 0))[0]
\* the sort is stable: the first of the sessions with the smallest value
\* (variant: the session with the largest value)
SoonestLatest ==
  CHOOSE i \in 1..Len(sessions) :
    \A j \in 1..Len(sessions) :
      /\ sessions[i].cooldownUntil >= sessions[j].cooldownUntil
      /\ sessions[i].cooldownUntil = sessions[j].cooldownUntil => i <= j
Soonest ==
  CHOOSE i \in 1..Len(sessions) :
    \A j \in 1..Len(sessions) :
      /\ sessions[i].cooldownUntil <= sessions[j].cooldownUntil
      /\ sessions[i].cooldownUntil = sessions[j].cooldownUntil => i <= j

\* the cooldownUntil that markLimited(session, endpoint, resetTime) sets at
\* time t  (variant: the reset time passed is used, in ms)
LimitedUntilReset(t, resetTime) == resetTime * MsPerSecond
LimitedUntil(t, resetTime) == t + PoolCooldownMs

\* this.sessions.find(s => s.authToken === session.authToken): index or 0
FindSession(tk) ==
  IF \E i \in 1..Len(sessions) : sessions[i].token = tk
  THEN CHOOSE i \in 1..Len(sessions) :
         /\ sessions[i].token = tk
         /\ \A j \in 1..(i - 1) : sessions[j].token # tk
  ELSE 0

\* add(session)
PoolAdd ==
  \E tk \in Tokens :
    /\ Len(sessions) < MaxSessions
    /\ sessions' = Append(sessions, FreshSession(tk))
    /\ poolRet' = NoPoolRet
    /\ served' = <<>>
    /\ UNCHANGED <<poolIndex, now, pagVars, rlVars, pmVars, loadVars, qidVars, clVars>>

\* remove(index): this.sessions.splice(index, 1)
PoolRemove ==
  \E i \in 1..Len(sessions) :
    /\ sessions' = SubSeq(sessions, 1, i - 1) \o SubSeq(sessions, i + 1, Len(sessions))
    /\ poolRet' = NoPoolRet
    /\ served' = <<>>
    /\ UNCHANGED <<poolIndex, now, pagVars, rlVars, pmVars, loadVars, qidVars, clVars>>

\* availableSessions[this.currentIndex % availableSessions.length]: the
\* position (1-based) taken from a list of n
\* (variant: always the first of the list)
PickFirst(i, n) == 1
Pick(i, n) == (i % n) + 1

\* getNext()
PoolGetNext ==
  /\ poolIndex < MaxGets
  /\ IF Len(sessions) = 0
     THEN /\ poolRet' = [NoPoolRet EXCEPT !.op = "getNext"]
          /\ served' = <<>>
          /\ UNCHANGED poolIndex
     ELSE LET avail == AvailableIdx(now)
          IN IF Len(avail) = 0
             THEN /\ poolRet' = [op |-> "getNext", idx |-> Soonest,
                                 token |-> sessions[Soonest].token,
                                 fallback |-> TRUE, arg |-> 0]
                  /\ served' = <<>>
                  /\ UNCHANGED poolIndex
             ELSE LET i == avail[Pick(poolIndex, Len(avail))]
                  IN /\ poolRet' = [op |-> "getNext", idx |-> i,
                                    token |-> sessions[i].token,
                                    fallback |-> FALSE, arg |-> 0]
                     /\ served' = (IF Len(served) >= Len(avail)
                                   THEN Tail(served) ELSE served) \o <<i>>
                     /\ poolIndex' = poolIndex + 1
  /\ UNCHANGED <<sessions, now, pagVars, rlVars, pmVars, loadVars, qidVars, clVars>>

\* markLimited(session, endpoint, resetTime)
PoolMarkLimited ==
  \E tk \in Tokens, resetTime \in 0..MaxPoolReset :
    LET i == FindSession(tk)
    IN /\ IF i = 0
          THEN UNCHANGED <<sessions, served>>
          ELSE /\ sessions' = [sessions EXCEPT ![i] =
                                 [token |-> tk,
                                  cooldownUntil |-> LimitedUntil(now, resetTime),
                                  limitedAt |-> now]]
               /\ served' = <<>>
       /\ poolRet' = [NoPoolRet EXCEPT !.op = "markLimited", !.idx = i, !.token = tk,
                                       !.arg = resetTime]
       /\ UNCHANGED <<poolIndex, now, pagVars, rlVars, pmVars, loadVars, qidVars, clVars>>

\* getAvailableCount()
PoolAvailableCount ==
  /\ poolRet' = [NoPoolRet EXCEPT !.op = "getAvailableCount",
                                  !.idx = Len(AvailableIdx(now))]
  /\ UNCHANGED <<sessions, poolIndex, served, now, pagVars, rlVars, pmVars, loadVars, qidVars,
                 clVars>>

\* time passes: half a day (followed until a cooldown started at 0 is at
\* its end), or, at the very end of a session's cooldown, one more ms
PoolTick ==
  /\ \/ now < PoolCooldownMs /\ now' = now + PoolCooldownMs \div 2
     \/ /\ \E i \in 1..Len(sessions) : sessions[i].cooldownUntil = now
        /\ now' = now + 1
  /\ poolRet' = NoPoolRet
  /\ served' = IF AvailableIdx(now') = AvailableIdx(now) THEN served ELSE <<>>
  /\ UNCHANGED <<sessions, poolIndex, pagVars, rlVars, pmVars, loadVars, qidVars, clVars>>

InitPool ==
  /\ ClockStart
  /\ PaginatorIdle
  /\ LimiterNew
  /\ ManagerIdle
  /\ LoaderIdle
  /\ ResolverIdle
  /\ ClientIdle
  /\ PoolIdle

NextPool ==
  \/ PoolAdd
  \/ PoolRemove
  \/ PoolGetNext
  \/ PoolMarkLimited
  \/ PoolAvailableCount
  \/ PoolTick

SpecPool == InitPool /\ [][NextPool]_vars

\* -------------------------------------------------------- QueryIdManager
\* private cacheTTL: number = 24 * 60 * 60 * 1000
CacheTTL == 24 * 60 * 60 * 1000

\* FALLBACK_QUERY_IDS: the static table.  Ids are numbered; the static id
\* of UserTweets is 1, and a bundle can bring other ids.
FALLBACK_QUERY_IDS == [o \in Ops |-> IF o = "UserTweets" THEN 1 ELSE 0]

Tables == [Ops -> 0..MaxId]

\* isCacheValid(): Date.now() - this.cache.fetchedAt < this.cacheTTL
\* (variant: <=)
IsCacheValidInclusive(t) == cache.present /\ t - cache.fetchedAt <= CacheTTL
IsCacheValid(t) == cache.present /\ t - cache.fetchedAt < CacheTTL

\* get(operationName) at time t: the id returned, or the error thrown
\* (variant: the static table is tried first)
ResolveFallbackFirst(op, t) ==
  IF FALLBACK_QUERY_IDS[op] # 0
  THEN [id |-> FALLBACK_QUERY_IDS[op], threw |-> FALSE]
  ELSE IF IsCacheValid(t) /\ cache.ids[op] # 0
  THEN [id |-> cache.ids[op], threw |-> FALSE]
  ELSE [id |-> 0, threw |-> TRUE]
\* this.cache?.ids[operationName] on an object without ids is a TypeError
Resolve(op, t) ==
  IF IsCacheValid(t) /\ ~cache.hasIds
  THEN [id |-> 0, threw |-> TRUE]
  ELSE IF IsCacheValid(t) /\ cache.ids[op] # 0
  THEN [id |-> cache.ids[op], threw |-> FALSE]
  ELSE IF FALLBACK_QUERY_IDS[op] # 0
  THEN [id |-> FALLBACK_QUERY_IDS[op], threw |-> FALSE]
  ELSE [id |-> 0, threw |-> TRUE]

\* how far refresh() gets: a request or a body read rejects, the page has
\* no bundle URL, saveCache fails in mkdirSync or in writeFileSync, or all
\* goes well
RefreshOutcomes ==
  {"requestFails", "htmlFails", "noBundleUrl", "bundleRequestFails", "bundleTextFails",
   "mkdirFails", "writeFails", "ok"}

\* the request() calls refresh() makes before it ends with the outcome
RequestsOf(outcome) ==
  IF outcome \in {"requestFails", "htmlFails", "noBundleUrl"} THEN 1 ELSE 2

\* const ids = {...FALLBACK_QUERY_IDS}; ids[match[2]] = match[1] for every
\* match in the bundle (found[o] = 0: the bundle has no match for o)
\* (variant: the static table is not copied in)
ExtractedOnly(found) == found
Extracted(found) ==
  [o \in Ops |-> IF found[o] # 0 THEN found[o] ELSE FALLBACK_QUERY_IDS[o]]

\* what refresh() hands to its caller
\* (variant: the catch block rethrows)
RefreshReturnRethrow(outcome, found) ==
  IF outcome = "ok" THEN [table |-> Extracted(found), threw |-> FALSE]
  ELSE IF outcome = "noBundleUrl" THEN [table |-> FALLBACK_QUERY_IDS, threw |-> FALSE]
  ELSE [table |-> NoIds, threw |-> TRUE]
RefreshReturn(outcome, found) ==
  IF outcome = "ok" THEN [table |-> Extracted(found), threw |-> FALSE]
  ELSE [table |-> FALLBACK_QUERY_IDS, threw |-> FALSE]

\* saveCache(ids) at time t: this.cache is assigned before writeFileSync
CacheAfterRefresh(outcome, found, t) ==
  IF outcome \in {"ok", "writeFails"}
  THEN [present |-> TRUE, hasIds |-> TRUE, ids |-> Extracted(found), fetchedAt |-> t]
  ELSE cache

\* saveCache(ids) at time t: the record that writeFileSync stores in the
\* cache file (NoCache: nothing is stored)
WrittenByRefresh(outcome, found, t) ==
  IF outcome = "ok"
  THEN [present |-> TRUE, hasIds |-> TRUE, ids |-> Extracted(found), fetchedAt |-> t]
  ELSE NoCache

\* list()
\* (variant: an expired cache is not listed)
ListedIfValid ==
  IF IsCacheValid(now) THEN cache.ids ELSE FALLBACK_QUERY_IDS
Listed ==
  IF cache.present /\ cache.hasIds THEN cache.ids ELSE FALLBACK_QUERY_IDS

\* get(operationName)
QGet ==
  \E op \in Ops :
    /\ qRet' = [NoQRet EXCEPT !.op = "get", !.name = op,
                              !.id = Resolve(op, now).id,
                              !.threw = Resolve(op, now).threw,
                              !.valid = IsCacheValid(now)]
    /\ UNCHANGED <<cache, now, pagVars, rlVars, pmVars, loadVars, poolVars, clVars>>

\* graphql(operationName, ..) of the client, up to its request: the id is
\* resolved first, and a failure to resolve it ends the call
QGraphql ==
  \E op \in Ops :
    /\ qRet' = [NoQRet EXCEPT !.op = "graphql", !.name = op,
                              !.id = Resolve(op, now).id,
                              !.threw = Resolve(op, now).threw,
                              !.valid = IsCacheValid(now),
                              !.requested = IF Resolve(op, now).threw THEN 0 ELSE 1]
    /\ UNCHANGED <<cache, now, pagVars, rlVars, pmVars, loadVars, poolVars, clVars>>

\* refresh()
QRefresh ==
  \E outcome \in RefreshOutcomes, found \in Tables :
    /\ now < MaxDays * CacheTTL
    /\ cache' = CacheAfterRefresh(outcome, found, now)
    /\ qRet' = [NoQRet EXCEPT !.op = "refresh", !.outcome = outcome,
                              !.table = RefreshReturn(outcome, found).table,
                              !.threw = RefreshReturn(outcome, found).threw,
                              !.found = found,
                              !.written = WrittenByRefresh(outcome, found, now),
                              !.requested = RequestsOf(outcome)]
    /\ UNCHANGED <<now, pagVars, rlVars, pmVars, loadVars, poolVars, clVars>>

\* list()
QList ==
  /\ qRet' = [NoQRet EXCEPT !.op = "list", !.table = Listed]
  /\ UNCHANGED <<cache, now, pagVars, rlVars, pmVars, loadVars, poolVars, clVars>>

\* time passes: half a day, or up to the last ms of the cache's validity,
\* or from there one more ms
QTick ==
  /\ \/ now < MaxDays * CacheTTL /\ now' = now + CacheTTL \div 2
     \/ /\ cache.present
        /\ now < cache.fetchedAt + CacheTTL - 1
        /\ now' = cache.fetchedAt + CacheTTL - 1
     \/ /\ cache.present
        /\ now = cache.fetchedAt + CacheTTL - 1
        /\ now' = now + 1
  /\ qRet' = NoQRet
  /\ UNCHANGED <<cache, pagVars, rlVars, pmVars, loadVars, poolVars, clVars>>

\* constructor: loadCache() reads the cache file, if there is a readable one
InitResolver ==
  /\ ClockStart
  /\ PaginatorIdle
  /\ LimiterNew
  /\ ManagerIdle
  /\ LoaderIdle
  /\ PoolIdle
  /\ ClientIdle
  /\ \/ cache = NoCache
     \/ cache \in [present : {TRUE}, hasIds : {TRUE}, ids : Tables, fetchedAt : {0}]
  /\ qRet = NoQRet

\* constructor: loadCache() keeps whatever JSON.parse returns for the cache
\* file, with or without an ids table
InitResolverAnyFile ==
  /\ ClockStart
  /\ PaginatorIdle
  /\ LimiterNew
  /\ ManagerIdle
  /\ LoaderIdle
  /\ PoolIdle
  /\ ClientIdle
  /\ \/ cache = NoCache
     \/ cache \in [present : {TRUE}, hasIds : {TRUE}, ids : Tables, fetchedAt : {0}]
     \/ cache = [NoCache EXCEPT !.present = TRUE, !.hasIds = FALSE]
  /\ qRet = NoQRet

NextResolver ==
  \/ QGet
  \/ QGraphql
  \/ QRefresh
  \/ QList
  \/ QTick

SpecResolver == InitResolver /\ [][NextResolver]_vars

SpecResolverAnyFile == InitResolverAnyFile /\ [][NextResolver]_vars

\* ------------------------------------------- BaseClient and its mixins
\* the calls a client makes: graphql() of BaseClient, dmRequest() of the DM
\* mixin, fetchNotifications() of the notifications mixin
CallKinds == {"graphql", "dm", "notifications"}

\* the endpoint key a call passes to the limiter
EndpointOf(kind) == IF kind = "dm" THEN "dm" ELSE "UserTweets"

ClientEndpoints == {EndpointOf(k) : k \in CallKinds}

\* the call awaits this.rateLimiter.waitIfNeeded(...) and, after the
\* request, calls this.rateLimiter.update(...)
UsesLimiter(kind) == kind \in {"graphql", "dm"}

\* the call reads this.proxyManager?.getCurrent() and wraps the request in
\* try / catch with markSuccess, markFailed and getNext
TracksProxy(kind) == kind \in {"graphql", "dm"}

\* the call tests response.statusCode !== 200
ChecksStatus(kind) == kind \in {"dm", "notifications"}

\* the status-code error of the call quotes body.slice(0, 200)
SlicesBody(kind) == kind = "notifications"

StatusOk == 200

StatusLimited == 429

\* what comes back from request(): a rejection (transport = FALSE), or a
\* response with a status code, rate-limit headers as parsed by
\* parseInt(...) || 0, and a body: JSON with data, JSON with errors, or text
\* that is not JSON
NoResp == [transport |-> FALSE, code |-> 0, remaining |-> 0, reset |-> 0, body |-> "none"]

Responses ==
  {NoResp} \cup
  [transport : {TRUE}, code : {StatusOk, StatusLimited},
   remaining : {0, MaxRemaining}, reset : {0, MaxReset},
   body : {"data", "errors", "text"}]

NoErr == [kind |-> "none", withStatus |-> FALSE, body |-> "none"]

\* getAvailableProxies() on a status map: the map after the call
StatusAfterAvailOn(stat, t) ==
  [u \in Urls |->
     IF /\ u \in Registered
        /\ stat[u].disabled
        /\ stat[u].lastFailure >= 0
        /\ CooldownOver(t - stat[u].lastFailure)
     THEN [stat[u] EXCEPT !.disabled = FALSE, !.failures = 0]
     ELSE stat[u]]

\* getNext() that reads the pointer but does not store its advance
GetNextOnKeeps(stat, idx, t) ==
  IF Len(proxies) = 0 THEN [url |-> 0, status |-> stat, index |-> idx]
  ELSE [url |-> proxies[(idx % Len(proxies)) + 1], status |-> stat, index |-> idx]

\* getNext() on a status map and index: the path returned (0: null), the
\* map and the index after the call
GetNextOn(stat, idx, t) ==
  IF Len(proxies) = 0 THEN [url |-> 0, status |-> stat, index |-> idx]
  ELSE LET after == StatusAfterAvailOn(stat, t)
           Ok(u) == ~after[u].disabled
           avail == SelectSeq(proxies, Ok)
       IN IF Len(avail) = 0
          THEN [url |-> proxies[1], status |-> ResetAll(after), index |-> idx]
          ELSE LET r == Scan(after, idx, 0)
               IN [url |-> IF r.url # 0 THEN r.url ELSE avail[1],
                   status |-> after, index |-> r.index]

\* getCurrent() at an index: the path the pointer is on (0: null)
GetCurrentOn(idx) ==
  IF Len(proxies) = 0 THEN 0 ELSE proxies[(idx % Len(proxies)) + 1]

\* markFailed(url) on a status map
MarkFailedOn(stat, u, t) ==
  IF u \notin Registered THEN stat
  ELSE [stat EXCEPT ![u] =
          [failures |-> stat[u].failures + 1,
           disabled |-> (stat[u].disabled \/ stat[u].failures + 1 >= pmOpt.maxFailures),
           lastFailure |-> t]]

\* markSuccess(url) on a status map
MarkSuccessOn(stat, u) ==
  IF u \notin Registered THEN stat
  ELSE [stat EXCEPT ![u].failures = 0, ![u].disabled = FALSE]

\* From the return of waitIfNeeded (or from the jitter sleep, for a call
\* that does not ask the limiter) to the awaited request():
\* getDispatcher(), which takes the path from getNext(), then getCurrent()
Dispatch(c) ==
  LET g == GetNextOn(status, currentIndex, now)
  IN /\ status' = g.status
     /\ currentIndex' = g.index
     /\ cl' = [c EXCEPT !.pc = "inflight",
                        !.used = g.url,
                        !.rotations = IF Len(proxies) = 0 THEN 0 ELSE 1,
                        !.cur = IF TracksProxy(c.kind) THEN GetCurrentOn(g.index) ELSE 0]

\* a call starts: jitter sleep, then waitIfNeeded up to its await or return
CallStart ==
  \E kind \in CallKinds :
    /\ cl.pc \in {"idle", "done"}
    /\ clCalls < MaxCalls
    /\ clCalls' = clCalls + 1
    /\ LET c0   == [ClIdle EXCEPT !.kind = kind,
                                  \* the call before: its path, and whether its
                                  \* request was rejected
                                  !.prevUsed = cl.used,
                                  !.prevFailed = (cl.pc = "done" /\ ~cl.resp.transport)]
           ep   == EndpointOf(kind)
           plan == WaitPlan(limits[ep], now)
       IN IF ~UsesLimiter(kind)
          THEN /\ Dispatch(c0)
               /\ UNCHANGED limits
          ELSE /\ limits' = IF plan.drop THEN [limits EXCEPT ![ep] = NoLimit] ELSE limits
               /\ IF plan.ms < 0
                  THEN Dispatch([c0 EXCEPT !.waited = TRUE])
                  ELSE /\ cl' = [c0 EXCEPT !.pc = "waiting", !.wakeAt = now + plan.ms]
                       /\ UNCHANGED <<status, currentIndex>>
    /\ UNCHANGED <<pair, pmOpt, proxies, pmRet, streak, owed, rl, rlCalls, now,
                   pagVars, loadVars, poolVars, qidVars>>

\* the sleep of waitIfNeeded is over: it returns and the request goes out
CallWake ==
  /\ cl.pc = "waiting"
  /\ now >= cl.wakeAt
  /\ Dispatch([cl EXCEPT !.waited = TRUE])
  /\ UNCHANGED <<clCalls, pair, limits, pmOpt, proxies, pmRet, streak, owed, rl, rlCalls, now,
                 pagVars, loadVars, poolVars, qidVars>>

\* how the call ends for a response: the payload returned, or the error
\* thrown (its kind, whether its message carries the status code, and how
\* much of the body it quotes)
Ending(kind, resp) ==
  IF ~resp.transport
  THEN [result |-> "error", err |-> [NoErr EXCEPT !.kind = "transport"]]
  ELSE IF ChecksStatus(kind) /\ resp.code # StatusOk
  THEN [result |-> "error",
        err |-> [kind |-> "status", withStatus |-> TRUE,
                 body |-> IF SlicesBody(kind) THEN "truncated" ELSE "whole"]]
  ELSE IF resp.body = "text"
  THEN [result |-> "error", err |-> [NoErr EXCEPT !.kind = "parse"]]
  ELSE IF kind = "graphql" /\ resp.body = "errors"
  THEN [result |-> "error", err |-> [NoErr EXCEPT !.kind = "api"]]
  ELSE [result |-> "payload", err |-> NoErr]

\* the awaited request() settles: the rest of the call
CallSettles ==
  \E resp \in Responses :
    /\ cl.pc = "inflight"
    /\ LET kind    == cl.kind
           tracked == TracksProxy(kind) /\ cl.cur # 0
           end     == Ending(kind, resp)
           \* if (currentProxy) markSuccess(currentProxy.url)
           s1      == IF tracked /\ resp.transport
                      THEN MarkSuccessOn(status, cl.cur) ELSE status
           m1      == IF tracked /\ resp.transport
                      THEN <<[op |-> "markSuccess", url |-> cl.cur]>> ELSE <<>>
           \* catch: markFailed(currentProxy.url), then getNext()
           caught  == tracked /\ end.result = "error"
           s2      == IF caught THEN MarkFailedOn(s1, cl.cur, now) ELSE s1
           g       == IF caught THEN GetNextOn(s2, currentIndex, now)
                      ELSE [url |-> 0, status |-> s2, index |-> currentIndex]
           m2      == IF caught
                      THEN Append(m1, [op |-> "markFailed", url |-> cl.cur]) ELSE m1
           upd     == UsesLimiter(kind) /\ resp.transport
       IN /\ status' = g.status
          /\ currentIndex' = g.index
          /\ limits' = IF upd
                       THEN [limits EXCEPT ![EndpointOf(kind)] =
                               [present |-> TRUE, remaining |-> resp.remaining,
                                reset |-> resp.reset]]
                       ELSE limits
          /\ cl' = [cl EXCEPT !.pc = "done", !.resp = resp, !.marks = m2,
                              !.rotations = cl.rotations + (IF caught THEN 1 ELSE 0),
                              !.updated = upd,
                              !.result = end.result, !.err = end.err]
    /\ UNCHANGED <<clCalls, pair, pmOpt, proxies, pmRet, streak, owed, rl, rlCalls, now,
                   pagVars, loadVars, poolVars, qidVars>>

\* time passes: a tick, or straight to the moment the waiting call is due
ClientTick ==
  /\ \/ now < MaxNow /\ now' = now + ClockStep
     \/ cl.pc = "waiting" /\ cl.wakeAt > now /\ now' = cl.wakeAt
  /\ UNCHANGED <<clVars, rlVars, pmVars, pagVars, loadVars, poolVars, qidVars>>

\* a client constructed with 0..MaxPaths egress paths and a new limiter
InitClient ==
  /\ ClockStart
  /\ PaginatorIdle
  /\ LoaderIdle
  /\ PoolIdle
  /\ ResolverIdle
  /\ ClientIdle
  /\ limits = [e \in ClientEndpoints |-> NoLimit]
  /\ rl = RlIdle
  /\ rlCalls = 0
  /\ pmOpt \in [maxFailures : 1..MaxThreshold, cooldown : {CooldownMs}]
  /\ \E n \in 0..MaxPaths : proxies = [k \in 1..n |-> k]
  /\ status = [u \in Urls |-> FreshStatus]
  /\ currentIndex = 0
  /\ pmRet = NoRet
  /\ streak = <<>>
  /\ owed = [u \in Urls |-> NoOwed]

NextClient ==
  \/ CallStart
  \/ CallWake
  \/ CallSettles
  \/ ClientTick

SpecClient == InitClient /\ [][NextClient]_vars

\* ------------------------------------- two calls in progress on one client
\* Each call is an async function: it runs without interruption from one
\* await to the next, and the other call runs only while it is suspended.
NoneFailed == \A i \in Callers : ~pair[i].failed

Began == Cardinality({i \in Callers : pair[i].began # 0})

Dispatched == Cardinality({i \in Callers : pair[i].nth # 0})

\* the responses the two calls get: a rejection, or an answer whose
\* rate-limit window is still open and whose body is JSON
PairResponses ==
  {r \in Responses : r.transport => (r.reset = MaxReset /\ r.body # "text")}

\* caller i makes its call: up to the jitter sleep
PairBegin(i) ==
  \E kind \in CallKinds :
    /\ pair[i].pc = "idle"
    /\ pair' = [pair EXCEPT ![i] = [PairIdle EXCEPT !.pc = "jitter", !.kind = kind,
                                                     !.began = Began + 1]]
    /\ UNCHANGED <<cl, clCalls, limits, status, currentIndex, pmOpt, proxies, pmRet,
                   streak, owed, rl, rlCalls, now, pagVars, loadVars, poolVars, qidVars>>

\* getDispatcher(), which takes the path from getNext(), then getCurrent(),
\* up to the awaited request()
PairDispatch(i) ==
  LET g == GetNextOn(status, currentIndex, now)
  IN /\ status' = g.status
     /\ currentIndex' = g.index
     /\ pair' = [pair EXCEPT ![i].pc = "inflight",
                              ![i].nth = Dispatched + 1,
                              ![i].used = g.url,
                              ![i].cur = IF TracksProxy(pair[i].kind)
                                         THEN GetCurrentOn(g.index) ELSE 0]

\* the jitter sleep of caller i is over: waitIfNeeded up to its sleep, or,
\* for a call that does not ask the limiter, on to the request
PairJitterDone(i) ==
  /\ pair[i].pc = "jitter"
  /\ LET kind == pair[i].kind
         ep   == EndpointOf(kind)
         plan == WaitPlan(limits[ep], now)
     IN IF ~UsesLimiter(kind)
        THEN /\ PairDispatch(i)
             /\ UNCHANGED limits
        ELSE /\ limits' = IF plan.drop THEN [limits EXCEPT ![ep] = NoLimit] ELSE limits
             /\ pair' = [pair EXCEPT ![i].pc = "waiting",
                                      ![i].wakeAt = IF plan.ms < 0 THEN now
                                                    ELSE now + plan.ms]
             /\ UNCHANGED <<status, currentIndex>>
  /\ UNCHANGED <<cl, clCalls, pmOpt, proxies, pmRet, streak, owed, rl, rlCalls, now,
                 pagVars, loadVars, poolVars, qidVars>>

\* the awaited waitIfNeeded of caller i has returned: the request goes out
PairWaitDone(i) ==
  /\ pair[i].pc = "waiting"
  /\ now >= pair[i].wakeAt
  /\ PairDispatch(i)
  /\ UNCHANGED <<cl, clCalls, limits, pmOpt, proxies, pmRet, streak, owed, rl, rlCalls,
                 now, pagVars, loadVars, poolVars, qidVars>>

\* catch of caller i: markFailed(currentProxy.url), then getNext()
PairCaught(i, stat) ==
  LET tracked == TracksProxy(pair[i].kind) /\ pair[i].cur # 0
      s2      == IF tracked THEN MarkFailedOn(stat, pair[i].cur, now) ELSE stat
      g       == IF tracked THEN GetNextOn(s2, currentIndex, now)
                 ELSE [url |-> 0, status |-> s2, index |-> currentIndex]
  IN /\ status' = g.status
     /\ currentIndex' = g.index

\* the awaited request() of caller i settles: rejected, or answered, and
\* then markSuccess and update up to the awaited read of the body
PairSettles(i) ==
  \E resp \in PairResponses :
    /\ pair[i].pc = "inflight"
    /\ LET kind    == pair[i].kind
           tracked == TracksProxy(kind) /\ pair[i].cur # 0
           end     == Ending(kind, resp)
       IN IF ~resp.transport
          THEN /\ PairCaught(i, status)
               /\ pair' = [pair EXCEPT ![i].pc = "done", ![i].result = "error",
                                        ![i].failed = TRUE]
               /\ UNCHANGED limits
          ELSE /\ status' = IF tracked THEN MarkSuccessOn(status, pair[i].cur) ELSE status
               /\ limits' = IF UsesLimiter(kind)
                            THEN [limits EXCEPT ![EndpointOf(kind)] =
                                    [present |-> TRUE, remaining |-> resp.remaining,
                                     reset |-> resp.reset]]
                            ELSE limits
               /\ pair' = [pair EXCEPT ![i].pc = "reading", ![i].result = end.result]
               /\ UNCHANGED currentIndex
    /\ UNCHANGED <<cl, clCalls, pmOpt, proxies, pmRet, streak, owed, rl, rlCalls, now,
                   pagVars, loadVars, poolVars, qidVars>>

\* the body of caller i's response has been read: the payload is returned,
\* or the error is thrown through the catch block
PairBodyRead(i) ==
  /\ pair[i].pc = "reading"
  /\ IF pair[i].result = "error"
     THEN /\ PairCaught(i, status)
          /\ pair' = [pair EXCEPT ![i].pc = "done", ![i].failed = TRUE]
     ELSE /\ pair' = [pair EXCEPT ![i].pc = "done"]
          /\ UNCHANGED <<status, currentIndex>>
  /\ UNCHANGED <<cl, clCalls, limits, pmOpt, proxies, pmRet, streak, owed, rl, rlCalls,
                 now, pagVars, loadVars, poolVars, qidVars>>

\* time passes: a tick, or straight to the moment a waiting call is due
PairTick ==
  /\ \/ now < MaxNow /\ now' = now + ClockStep
     \/ \E i \in Callers :
          pair[i].pc = "waiting" /\ pair[i].wakeAt > now /\ now' = pair[i].wakeAt
  /\ UNCHANGED <<clVars, rlVars, pmVars, pagVars, loadVars, poolVars, qidVars>>

\* a client as constructed, its pointer where earlier calls left it
InitPair ==
  /\ ClockStart
  /\ PaginatorIdle
  /\ LoaderIdle
  /\ PoolIdle
  /\ ResolverIdle
  /\ ClientIdle
  /\ limits = [e \in ClientEndpoints |-> NoLimit]
  /\ rl = RlIdle
  /\ rlCalls = 0
  /\ pmOpt \in [maxFailures : 1..MaxThreshold, cooldown : {CooldownMs}]
  /\ \E n \in 0..MaxPaths :
       /\ proxies = [k \in 1..n |-> k]
       /\ currentIndex \in {k \in 0..MaxPaths : k = 0 \/ k < n}
  /\ status = [u \in Urls |-> FreshStatus]
  /\ pmRet = NoRet
  /\ streak = <<>>
  /\ owed = [u \in Urls |-> NoOwed]

NextPair ==
  \/ \E i \in Callers : PairBegin(i)
  \/ \E i \in Callers : PairJitterDone(i)
  \/ \E i \in Callers : PairWaitDone(i)
  \/ \E i \in Callers : PairSettles(i)
  \/ \E i \in Callers : PairBodyRead(i)
  \/ PairTick

SpecPair == InitPair /\ [][NextPair]_vars

\* ------------------------------------------------- reading the history
Idx == DOMAIN log

\* the run an event belongs to
RunOf(j) == Cardinality({k \in 1..j : log[k].e = "start"})

RunThrew(r) == \E j \in Idx : RunOf(j) = r /\ log[j].e = "throw"

\* every run before the current one ended in a throw: one interrupted fetch
\* carried from a fresh start through the resume file
ChainOfThrows == \A r \in 1..(run - 1) : RunThrew(r)

\* indices of the events of one kind, in order
Sel(kind) ==
  LET all == [j \in 1..Len(log) |-> j]
      Is(j) == log[j].e = kind
  IN SelectSeq(all, Is)

SelRun(kind, r) ==
  LET all == [j \in 1..Len(log) |-> j]
      Is(j) == log[j].e = kind /\ RunOf(j) = r
  IN SelectSeq(all, Is)

\* the pages successfully fetched, over all runs, in order
OkPages == [k \in 1..Len(Sel("ok")) |-> log[Sel("ok")[k]].page]

\* the page reports no further data
NoFurther(i) == ~PageHasMore(i) \/ PageCursor(i) = NoCursor

\* the index of the latest fresh start (no cursor resumed) at or before j
FreshStart(j) ==
  LET S == {k \in 1..j : log[k].e = "start" /\ log[k].cur = NoCursor}
  IN IF S = {} THEN 0 ELSE CHOOSE k \in S : \A m \in S : m <= k

\* pages successfully fetched since page 1 at the time of event j
OkSinceFresh(j) ==
  Cardinality({k \in FreshStart(j)..j : k \in Idx /\ log[k].e = "ok"})

AllRequested == opt.all /\ opt.maxPages = 0 /\ opt.resume

RECURSIVE Concat(_)
Concat(ss) == IF ss = <<>> THEN <<>> ELSE Head(ss) \o Concat(Tail(ss))

AllItemsOfServer == Concat([i \in 1..srv.n |-> PageItems(i)])

Range(s) == {s[k] : k \in DOMAIN s}

\* --------------------------------------------------------------- claims

\* C1: with all pages requested and a resume file, when a run has fetched
\* P1..Pk and the fetch of P(k+1) throws, the next run's first page-fetch
\* call is given the cursor returned by Pk (none when k = 0), and once that
\* run returns, every page P1..Pn was successfully fetched exactly once, in
\* order, over the runs.
C1_ResumeFromLastCursor ==
  (AllRequested /\ ChainOfThrows) =>
    /\ \A r \in 2..run :
         LET calls == SelRun("call", r)
             oks   == {k \in Idx : RunOf(k) < r /\ log[k].e = "ok"}
             lastOk == CHOOSE k \in oks : \A m \in oks : m <= k
         IN /\ calls # <<>>
            /\ log[calls[1]].cur =
                 (IF oks = {} THEN NoCursor ELSE PageCursor(log[lastOk].page))
    /\ (pc = "done" => OkPages = [i \in 1..srv.n |-> i])

C1_Witness ==
  /\ AllRequested /\ ChainOfThrows
  /\ run = 2 /\ pc = "done"
  /\ srv.n = 3
  /\ \E j \in Idx : RunOf(j) = 1 /\ log[j].e = "ok" /\ log[j].page = 2

\* C2: interrupting fetchAll after page k and resuming from the checkpoint
\* delivers, over the interrupted run and the resumed run together, every
\* item of P1..Pn to the caller.
C2_ResumeDeliversAllItems ==
  (AllRequested /\ ChainOfThrows /\ run >= 2 /\ pc = "done") =>
    Range(AllItemsOfServer) \subseteq UNION {Range(delivered[d]) : d \in DOMAIN delivered}

\* C3: with a resume file, the checkpoint write describing page i comes
\* right after page i's items were appended and before the page-fetch call
\* for page i+1, and stores the next-cursor returned by page i.
C3_CheckpointOrder ==
  opt.resume =>
    /\ \A a \in Idx : log[a].e = "append" =>
         /\ a + 1 \in Idx
         /\ log[a + 1].e = "save"
         /\ log[a + 1].page = log[a].page
         /\ log[a + 1].cur = PageCursor(log[a].page)
    /\ \A c \in Idx : (log[c].e = "call" /\ c > 1 /\ log[c - 1].e # "start") =>
         \E s \in 1..(c - 1) :
           /\ log[s].e = "save"
           /\ log[s].page + 1 = log[c].page
           /\ log[s].cur = log[c].cur
           /\ \A m \in (s + 1)..(c - 1) : log[m].e = "sleep"
    /\ (pc \in {"fetching", "sleeping"} /\ SelRun("ok", run) # <<>>) =>
         LET i == log[SelRun("ok", run)[Len(SelRun("ok", run))]].page
         IN /\ file.present
            /\ file.cursor = PageCursor(i)
            /\ file.cursor = loc.cursor
            /\ Range(PageItems(i)) \subseteq Range(loc.allItems)

C3_Witness ==
  /\ opt.resume /\ pc = "fetching"
  /\ Len(Sel("save")) = 2
  /\ loc.allItems # <<>>

\* C4: when a page reports no further data, no further page-fetch call is
\* made in that run, the run returns complete = true, and no checkpoint
\* file is left behind, whatever the all and maxPages options are.
C4_ExhaustionClears ==
  \A j \in Idx : (log[j].e = "ok" /\ NoFurther(log[j].page)) =>
    /\ \A m \in Idx : (m > j /\ RunOf(m) = RunOf(j)) => log[m].e # "call"
    /\ \E m \in Idx : m > j /\ RunOf(m) = RunOf(j) /\ log[m].e = "ret" /\ log[m].n = 1
    /\ (RunOf(j) = run) => (pc = "done" /\ ~file.present)

C4_Witness ==
  /\ pc = "done" /\ opt.resume /\ ~opt.all /\ opt.maxPages = 2
  /\ srv.n = 2 /\ srv.last = "moreNoCursor"
  /\ Len(SelRun("ok", run)) = 2

\* a run that stopped at a caller-supplied cap while the page it fetched
\* last still reported more data
StoppedByCap ==
  /\ pc = "done" /\ opt.resume /\ opt.maxPages # 0
  /\ SelRun("ok", run) # <<>>
  /\ loc.pageCount >= opt.maxPages
  /\ ~NoFurther(log[SelRun("ok", run)[Len(SelRun("ok", run))]].page)

LastPageOfRun == log[SelRun("ok", run)[Len(SelRun("ok", run))]].page

C5_WitnessNotAll == StoppedByCap /\ ~opt.all /\ opt.maxPages = 2 /\ srv.n = 3

\* C6: with a resume file, when the page-fetch function throws, fetchAll
\* first writes a checkpoint holding the cursor the failed call was given
\* and the number of pages fetched so far, then re-raises; the checkpoint
\* is not deleted on the way.
C6_CheckpointBeforeRethrow ==
  opt.resume =>
    /\ \A j \in Idx : log[j].e = "throw" =>
         /\ j > 2
         /\ log[j - 2].e = "fail"
         /\ log[j - 1].e = "saveErr"
         /\ log[j - 1].cur = log[j - 2].cur
         /\ log[j - 1].n = OkSinceFresh(j)
    /\ pc = "failed" =>
         /\ file.present
         /\ file.cursor = loc.cursor
         /\ file.pagesFetched = OkSinceFresh(Len(log))

C6_Witness ==
  /\ opt.resume /\ pc = "failed" /\ run = 2
  /\ file.pagesFetched = 2
  /\ Len(SelRun("ok", 1)) = 1 /\ Len(SelRun("ok", 2)) = 1

\* the cap, if any, lets all n pages be fetched
WithinCap == IF opt.maxPages # 0 THEN srv.n <= opt.maxPages ELSE (opt.all \/ srv.n <= 1)

\* C7: an uninterrupted run with a resume file over P1..Pn (n within the
\* cap) calls the page-fetch function exactly n times, one at a time, each
\* call given the cursor the previous page returned; writes the checkpoint
\* exactly n times; leaves no checkpoint; and returns the items of P1..Pn
\* concatenated in order.
C7_UninterruptedRun ==
  (run = 1 /\ pc = "done" /\ opt.resume /\ WithinCap) =>
    LET calls == Sel("call")
        oks   == Sel("ok")
    IN /\ Len(calls) = srv.n
       /\ Len(oks) = srv.n
       /\ \A k \in 1..srv.n :
            /\ log[oks[k]].page = k
            /\ calls[k] < oks[k]
            /\ k < srv.n => oks[k] < calls[k + 1]
            /\ log[calls[k]].cur = (IF k = 1 THEN NoCursor ELSE PageCursor(k - 1))
       /\ Len(Sel("save")) = srv.n
       /\ Sel("saveErr") = <<>>
       /\ ~file.present
       /\ delivered = <<AllItemsOfServer>>

C7_Witness ==
  /\ run = 1 /\ pc = "done" /\ opt.resume /\ WithinCap
  /\ srv.n = 3 /\ Len(AllItemsOfServer) = 3
  /\ opt.delay # 0

\* C8: for every recorded endpoint state, a waitIfNeeded call that saw
\* remaining = 0 does not return before the recorded reset time, and one
\* that saw remaining > 5 returns without waiting.
C8_WaitUntilReset ==
  (rl.pc = "returned" /\ rl.had) =>
    /\ rl.remaining = 0 => rl.retAt >= rl.reset * MsPerSecond
    /\ rl.remaining > LowRemaining => (~rl.slept /\ rl.retAt = rl.calledAt)

C8_Witness ==
  /\ rl.pc = "returned" /\ rl.had /\ rl.remaining = 0 /\ rl.slept
  /\ rl.calledAt < rl.reset * MsPerSecond
  /\ limits[rl.ep].present

\* the path registered after u, cyclically
Successor(u) ==
  LET k == CHOOSE i \in DOMAIN proxies : proxies[i] = u
  IN proxies[(k % Len(proxies)) + 1]

\* C9: with N >= 1 registered paths, all non-disabled, and no health change
\* in between, consecutive getNext() calls return the paths in registration
\* order, cyclically: any N consecutive calls return each path exactly once.
C9_RoundRobin ==
  (Len(proxies) >= 1 /\ AllEnabled) =>
    /\ \A k \in DOMAIN streak : streak[k] \in Registered
    /\ \A k \in 1..(Len(streak) - 1) : streak[k + 1] = Successor(streak[k])
    /\ \A k \in 1..(Len(streak) - Len(proxies) + 1) :
         {streak[m] : m \in k..(k + Len(proxies) - 1)} = Registered

C9_Witness ==
  /\ Len(proxies) = 2 /\ AllEnabled
  /\ Len(streak) = 3
  /\ streak[1] = 2

\* C10 as stated: getNext() never returns, and getStats() never counts as
\* available, a path that is disabled with its cooldown window not elapsed
\* since its last failure.
C10_NoDisabledPathEarly ==
  pmRet.op \in {"getNext", "getStats"} => ~pmRet.early

\* C10 amended: a path whose disabled flag is set is not counted as
\* available, and is not returned by getNext(), before its last failure
\* time + cooldown, except when every registered path is disabled and
\* cooling down: then getNext() re-enables all paths and returns the first
\* registered one.
C10_NoDisabledPathEarlyButAmnesty ==
  /\ pmRet.op = "getStats" => ~pmRet.early
  /\ (pmRet.op = "getNext" /\ pmRet.early) =>
       /\ pmRet.amnesty
       /\ pmRet.url = proxies[1]
       /\ AllEnabled
  /\ (pmRet.op = "getNext" /\ pmRet.amnesty) => pmRet.early

C10_Witness ==
  /\ pmRet.op = "getNext" /\ pmRet.url = 2 /\ ~pmRet.amnesty
  /\ Len(proxies) = 2
  /\ status[1].disabled /\ status[1].failures >= pmOpt.maxFailures
  /\ now < status[1].lastFailure + pmOpt.cooldown

\* ---- SessionPool: reading the last call
\* the entry the last getNext() returned (the pool is not changed by the call)
Returned == sessions[poolRet.idx]

\* the entry was marked limited less than 24 h before now
InLockout(s) == s.limitedAt >= 0 /\ now < s.limitedAt + PoolCooldownMs

\* C11 as stated: after markLimited(c, endpoint, resetTime) at time t, no
\* getNext() call made earlier than t + 24 h returns c, whatever the states
\* of the other credentials and whatever resetTime was passed.
C11_LockedOutNeverReturned ==
  (poolRet.op = "getNext" /\ poolRet.idx # 0) => ~InLockout(Returned)

\* C11 amended: after markLimited(c, endpoint, resetTime) at time t, whatever
\* resetTime was passed, a getNext() call made earlier than t + 24 h returns
\* c only when every credential of the pool is in cooldown at that call, and
\* then c is the one whose cooldown ends soonest.
C11_LockedOutOnlyWhenAllAre ==
  (poolRet.op = "getNext" /\ poolRet.idx # 0 /\ InLockout(Returned)) =>
    /\ poolRet.fallback
    /\ \A j \in 1..Len(sessions) :
         /\ sessions[j].limitedAt >= 0
         /\ now <= sessions[j].limitedAt + PoolCooldownMs
         /\ Returned.limitedAt <= sessions[j].limitedAt

\* one credential is passed over inside its 24 h while another, marked
\* earlier, is returned again after its 24 h
C11_Witness ==
  /\ poolRet.op = "getNext" /\ poolRet.idx # 0 /\ ~poolRet.fallback
  /\ Returned.limitedAt >= 0
  /\ now > Returned.limitedAt + PoolCooldownMs
  /\ \E j \in 1..Len(sessions) : j # poolRet.idx /\ InLockout(sessions[j])

\* C19: when the pool is non-empty and every credential is in cooldown,
\* getNext() returns a credential (not null, no error): the one whose
\* cooldown-until time is the smallest.
C19_SoonestWhenAllCooling ==
  (/\ poolRet.op = "getNext"
   /\ Len(sessions) > 0
   /\ \A j \in 1..Len(sessions) :
        sessions[j].cooldownUntil # 0 /\ sessions[j].cooldownUntil >= now) =>
    /\ poolRet.idx \in 1..Len(sessions)
    /\ poolRet.token = Returned.token
    /\ \A j \in 1..Len(sessions) :
         Returned.cooldownUntil <= sessions[j].cooldownUntil

C19_Witness ==
  /\ poolRet.op = "getNext" /\ poolRet.fallback
  /\ Len(sessions) = 2
  /\ poolRet.idx = 2
  /\ sessions[2].cooldownUntil < sessions[1].cooldownUntil
  /\ sessions[2].cooldownUntil >= now

\* ---- QueryIdManager: reading the last call
CacheExpired == cache.present /\ now - cache.fetchedAt >= CacheTTL

\* C12: when now - fetchedAt >= TTL (24 h), get(op) ignores the cached
\* mapping: it returns the static table's id for op even when the cache holds
\* a different id for op, and it fails for an op present only in the cache.
C12_ExpiredCacheIgnored ==
  (qRet.op = "get" /\ CacheExpired) =>
    /\ ~qRet.valid
    /\ FALLBACK_QUERY_IDS[qRet.name] # 0 =>
         ~qRet.threw /\ qRet.id = FALLBACK_QUERY_IDS[qRet.name]
    /\ FALLBACK_QUERY_IDS[qRet.name] = 0 => qRet.threw

\* the cache is exactly 24 h old and holds another id for the operation
C12_Witness ==
  /\ qRet.op = "get" /\ qRet.name = "UserTweets"
  /\ cache.present /\ now - cache.fetchedAt = CacheTTL
  /\ cache.ids["UserTweets"] \notin {0, FALLBACK_QUERY_IDS["UserTweets"]}
  /\ qRet.id = FALLBACK_QUERY_IDS["UserTweets"]

\* the operation is known to the expired cache only: the call fails
C12_WitnessCacheOnly ==
  /\ qRet.op = "get" /\ qRet.name = "CommunityTweets"
  /\ CacheExpired
  /\ cache.ids["CommunityTweets"] # 0
  /\ qRet.threw

\* C20: refresh() never fails its caller: on a network failure, a missing
\* bundle URL or a failure to read or store the bundle it returns the static
\* table; otherwise the table it extracted from the bundle.
C20_RefreshNeverFails ==
  qRet.op = "refresh" =>
    /\ ~qRet.threw
    /\ qRet.outcome # "ok" => qRet.table = FALLBACK_QUERY_IDS
    /\ qRet.outcome = "ok" =>
         \A o \in Ops : qRet.table[o] # FALLBACK_QUERY_IDS[o] => qRet.table[o] = cache.ids[o]

C20_Witness ==
  /\ qRet.op = "refresh"
  /\ qRet.outcome = "bundleRequestFails"
  /\ ~qRet.threw
  /\ qRet.table = FALLBACK_QUERY_IDS

\* C18: when at least one path is registered and every registered path is
\* disabled with its cooldown not yet elapsed, getNext() resets the health of
\* all paths (disabled = false, failures = 0) and returns the first
\* registered path; it never returns null.
C18_AmnestyWhenAllDisabled ==
  [][(/\ pmRet'.op = "getNext"
      /\ Len(proxies) >= 1
      /\ \A u \in Registered : CoolingDown(u, now)) =>
       /\ pmRet'.amnesty
       /\ pmRet'.url = proxies[1]
       /\ pmRet'.url # 0
       /\ \A u \in Registered : ~status'[u].disabled /\ status'[u].failures = 0]_vars

C18_Witness ==
  /\ pmRet.op = "getNext" /\ pmRet.amnesty
  /\ Len(proxies) = 2
  /\ pmRet.url = proxies[1]
  /\ \A u \in Registered :
       /\ status[u].lastFailure >= 0
       /\ now - status[u].lastFailure < pmOpt.cooldown
       /\ ~status[u].disabled /\ status[u].failures = 0

\* ---- ProxyManager: reading the last load
\* the lines of the file that are neither blank nor comments
Candidates == {k \in DOMAIN pfile.lines : pfile.lines[k].kind \in {"bad", "spec"}}

\* the well-formed lines, and the distinct paths they name
WellFormed == {k \in Candidates : pfile.lines[k].kind = "spec"}

PathsNamed == {pfile.lines[k].url : k \in WellFormed}

\* C13: loading a proxy file never throws because of a malformed line: for a
\* file whose well-formed lines name v distinct paths (not registered
\* before), with m malformed lines and any number of blank or '#' lines, the
\* manager registers exactly v paths, emits exactly m warnings, and
\* construction succeeds.
C13_MalformedLinesSkipped ==
  /\ (ld.loads > 0 /\ pfile.exists) =>
       /\ ld.pc = "built"
       /\ ld.warnings = Cardinality(Candidates \ WellFormed)
       /\ Len(proxies) - Len(ld.before) =
            Cardinality(PathsNamed \ {ld.before[k] : k \in DOMAIN ld.before})
       /\ Registered = PathsNamed \cup {ld.before[k] : k \in DOMAIN ld.before}
       /\ \A j, k \in DOMAIN proxies : proxies[j] = proxies[k] => j = k
  /\ ld.pc = "threw" =>
       \/ ld.threw = "proxyOption" /\ pfile.proxy.kind = "bad"
       \/ ld.threw = "fileNotFound" /\ pfile.hasFile /\ ~pfile.exists

\* a file with a malformed line between two well-formed lines, one of them
\* written without its scheme
C13_Witness ==
  /\ ld.pc = "built" /\ ld.loads = 1
  /\ pfile.proxy.kind = "blank"
  /\ Len(pfile.lines) = 3
  /\ pfile.lines[1].kind = "spec" /\ ~pfile.lines[1].scheme
  /\ pfile.lines[2].kind = "bad"
  /\ pfile.lines[3].kind = "spec" /\ pfile.lines[3].url # pfile.lines[1].url
  /\ Len(proxies) = 2
  /\ ld.warnings = 1

\* ---- the client: reading the call that ended
CallDone == cl.pc = "done"

MarksOn(op) == {k \in DOMAIN cl.marks : cl.marks[k].op = op}

\* C14: for every orchestrated call dispatched through egress path p, with
\* any number N >= 1 of registered paths, the health update that follows the
\* call (markSuccess on transport success, markFailed on failure) is applied
\* to p itself and to no other path.
C14_HealthUpdateOnUsedPath ==
  (CallDone /\ cl.used # 0) =>
    /\ cl.marks # <<>>
    /\ \A k \in DOMAIN cl.marks : cl.marks[k].url = cl.used

\* C15: when a GraphQL call succeeds at the transport level but the payload
\* carries API-level errors, the call fails with an error carrying the joined
\* messages, and the egress path is left in the state of a successful call:
\* markFailed is not applied to any path and the rotation pointer is not
\* advanced a second time.
C15_ApiErrorLeavesPathHealthy ==
  (CallDone /\ cl.kind = "graphql" /\ cl.resp.transport /\ cl.resp.body = "errors") =>
    /\ cl.result = "error" /\ cl.err.kind = "api"
    /\ MarksOn("markFailed") = {}
    /\ cl.rotations <= 1

\* C16: every orchestrated call (GraphQL operation, DM REST call,
\* notification REST call) whose response has a non-2xx HTTP status fails
\* with an error that carries the status code and a truncated body; such a
\* call never returns a payload to its caller.
C16_Non2xxFailsWithStatus ==
  (CallDone /\ cl.resp.transport /\ cl.resp.code # StatusOk) =>
    /\ cl.result = "error"
    /\ cl.err.kind = "status"
    /\ cl.err.withStatus
    /\ cl.err.body = "truncated"

\* C17: every outbound API call made by the client (GraphQL operation, DM
\* REST call, notification REST call) invokes the rate limiter's waitIfNeeded
\* for its endpoint and lets it return before the request is dispatched, and
\* on transport success records the response's rate-limit values in the
\* limiter.
C17_LimiterAroundEveryCall ==
  /\ cl.pc \in {"inflight", "done"} => cl.waited
  /\ (CallDone /\ cl.resp.transport) =>
       /\ cl.updated
       /\ limits[EndpointOf(cl.kind)].present
       /\ limits[EndpointOf(cl.kind)].remaining = cl.resp.remaining
       /\ limits[EndpointOf(cl.kind)].reset = cl.resp.reset

RequestedDelay == IF rl.slept THEN rl.wakeAt - rl.calledAt ELSE 0

\* C30: waitIfNeeded's delay equals this reference function of the recorded
\* state: 0 ms when no state is recorded or remaining > 5; otherwise 0 ms
\* when the reset time has passed; otherwise (reset*1000 - now + 1000) ms
\* when remaining <= 0; otherwise 60000 / remaining ms when
\* 1 <= remaining <= 5.
C30_DelayReference ==
  rl.pc \in {"sleeping", "returned"} =>
    RequestedDelay =
      (IF ~rl.had \/ rl.remaining > 5 THEN 0
       ELSE IF rl.calledAt > rl.reset * 1000 THEN 0
       ELSE IF rl.remaining <= 0 THEN rl.reset * 1000 - rl.calledAt + 1000
       ELSE 60000 \div rl.remaining)

C30_Witness ==
  /\ rl.pc = "sleeping" /\ rl.had
  /\ rl.remaining = 3
  /\ rl.calledAt <= rl.reset * MsPerSecond
  /\ RequestedDelay = 20000

\* C22: getCurrent() changes no state, and in every reachable state of the
\* egress manager the path it returns is the path that an immediately
\* following getNext() returns.
C22_CurrentIsNext ==
  pmRet.op = "getCurrent" =>
    pmRet.url = GetNextOn(status, currentIndex, now).url

\* the cache is within its TTL and has an entry for the operation
CacheHolds(op) ==
  cache.present /\ now - cache.fetchedAt < CacheTTL /\ cache.ids[op] # 0

C28_ListIsPure ==
  [][qRet'.op = "list" =>
       /\ qRet'.table = (IF cache.present THEN cache.ids ELSE FALLBACK_QUERY_IDS)
       /\ cache' = cache
       /\ qRet'.requested = 0
       /\ qRet'.written = NoCache]_vars

\* an expired cache is listed
C28_Witness ==
  /\ qRet.op = "list"
  /\ CacheExpired
  /\ cache.ids # FALLBACK_QUERY_IDS
  /\ qRet.table = cache.ids

\* C29: a successful refresh() returns and persists a mapping that contains
\* every entry of the fallback table, overridden by each (operationName, id)
\* pair extracted from the bundle, with fetchedAt set to the refresh time; an
\* immediately following resolve(op) returns the extracted id for every
\* extracted op.
C29_RefreshMergesAndPersists ==
  (qRet.op = "refresh" /\ qRet.outcome = "ok") =>
    /\ \A o \in Ops :
         qRet.table[o] = IF qRet.found[o] # 0 THEN qRet.found[o]
                         ELSE FALLBACK_QUERY_IDS[o]
    /\ qRet.written = [present |-> TRUE, hasIds |-> TRUE, ids |-> qRet.table,
                       fetchedAt |-> now]
    /\ cache = qRet.written
    /\ \A o \in Ops :
         qRet.found[o] # 0 =>
           Resolve(o, now) = [id |-> qRet.found[o], threw |-> FALSE]

\* the bundle overrides the static id of one operation and brings another
C29_Witness ==
  /\ qRet.op = "refresh" /\ qRet.outcome = "ok"
  /\ qRet.found["UserTweets"] \notin {0, FALLBACK_QUERY_IDS["UserTweets"]}
  /\ qRet.found["CommunityTweets"] # 0
  /\ cache.ids = qRet.found

ReenabledByGetNext ==
  (pmRet'.op = "getNext" /\ now' = now) =>
    \A u \in Registered :
      (status[u].disabled /\ status[u].lastFailure >= 0
         /\ now - status[u].lastFailure >= pmOpt.cooldown) =>
        (~status'[u].disabled /\ status'[u].failures = 0)

SleepsBetween(j, k) == {m \in (j + 1)..(k - 1) : log[m].e = "sleep"}

\* events j < k belong to the same run: no run starts after j up to k
SameRun(j, k) == \A m \in (j + 1)..k : log[m].e # "start"

\* for the i-th of the page-fetch calls (calls: their events, in order),
\* the event that bounds what follows it: the next call, or the end of the log
NextCallOrEnd(calls, i) == IF i < Len(calls) THEN calls[i + 1] ELSE Len(log) + 1

\* the run of the call at event j is over before event k
RunOverBefore(j, k) == \E m \in (j + 1)..(k - 1) : log[m].e \in {"ret", "throw"}

\* C25: within one fetchAll run with a delay d > 0, exactly one sleep of d
\* occurs between every two consecutive page-fetch calls, and no delay sleep
\* follows the final page-fetch call of the run.
C25_OneSleepBetweenCalls ==
  opt.delay > 0 =>
    LET calls == Sel("call")
    IN \A i \in DOMAIN calls :
         LET j == calls[i]
             k == NextCallOrEnd(calls, i)
             sleeps == SleepsBetween(j, k)
         IN IF k <= Len(log) /\ SameRun(j, k)
            THEN /\ Cardinality(sleeps) = 1
                 /\ \A m \in sleeps : log[m].n = opt.delay
            ELSE RunOverBefore(j, k) => sleeps = {}

\* a finished run of three pages: two sleeps, none after the third call
C25_Witness ==
  /\ opt.delay > 0 /\ pc = "done" /\ run = 1
  /\ Len(Sel("call")) = 3
  /\ Len(Sel("sleep")) = 2
  /\ Sel("sleep")[2] < Sel("call")[3]

\* the items a run returns when it starts at cursor c with p pages counted
\* and no page-fetch call fails: what the loop collects from the server,
\* whatever becomes of the resume file
RECURSIVE ExpectedItems(_, _)
ExpectedItems(c, p) ==
  IF ~UnderCap(p) THEN <<>>
  ELSE LET i == PageOf(c)
       IN PageItems(i) \o (IF ContinueAfter(i)
                           THEN ExpectedItems(PageCursor(i), p + 1) ELSE <<>>)

\* the start event of the run that event j belongs to
StartOf(j) == CHOOSE s \in 1..j : log[s].e = "start" /\ SameRun(s, j)

\* C24: a checkpoint read failure (unreadable or unparsable resume file)
\* makes fetchAll start fresh at page 1 with no cursor and without raising;
\* a checkpoint write failure is swallowed, and fetchAll goes on to fetch the
\* remaining pages and returns the same result as when the write succeeds.
C24_CheckpointFailuresSwallowed ==
  /\ \A j \in Idx :
       log[j].e = "readErr" =>
         /\ log[j - 1] = Ev("start", NoCursor, 0, 0)
         /\ j < Len(log)
         /\ log[j + 1] = Ev("call", NoCursor, 1, 0)
  /\ \A j \in Idx :
       log[j].e = "saveFail" =>
         /\ j < Len(log)
         /\ IF log[j - 1].e = "fail" THEN log[j + 1].e = "throw"
            ELSE log[j + 1].e \in {"call", "clear", "ret"}
  /\ LET rets == Sel("ret")
     IN \A k \in DOMAIN delivered :
          LET s == StartOf(rets[k])
          IN delivered[k] = ExpectedItems(log[s].cur, log[s].n)

\* the second run could not read the checkpoint of the first and could not
\* write its own: it fetched all three pages from page 1 and returned them
C24_Witness ==
  /\ run = 2 /\ pc = "done"
  /\ srv.n = 3
  /\ Len(Sel("readErr")) = 1
  /\ Len(Sel("saveFail")) = 3
  /\ file.present
  /\ Len(delivered) = 1 /\ Len(delivered[1]) = 3 * MaxItems

\* a step that is a waitIfNeeded(e) call made with a record whose reset
\* time has passed
StaleCall(e) ==
  /\ rlCalls' = rlCalls + 1
  /\ rl'.ep = e
  /\ limits[e].present
  /\ now > limits[e].reset * MsPerSecond

\* C31 as stated: whenever waitIfNeeded(endpoint) is called after the
\* recorded reset time has passed (now > reset*1000), the endpoint's state is
\* discarded and the call returns without waiting, for every value of
\* remaining.
C31_StaleDiscarded ==
  [][\A e \in Endpoints :
       StaleCall(e) =>
         (~limits'[e].present /\ rl'.pc = "returned" /\ ~rl'.slept)]_vars

\* C31 amended: the call returns without waiting for every value of
\* remaining; the state is discarded when remaining <= 5 and kept as it is
\* when remaining > 5.
C31_StaleDiscardedWhenLow ==
  [][\A e \in Endpoints :
       StaleCall(e) =>
         /\ rl'.pc = "returned" /\ ~rl'.slept
         /\ limits[e].remaining <= 5 => ~limits'[e].present
         /\ limits[e].remaining > 5 => limits'[e] = limits[e]]_vars

\* a call found a stale record with low quota and dropped it
C31_Witness ==
  /\ rl.pc = "returned" /\ rl.had /\ ~rl.slept
  /\ rl.remaining = 3
  /\ rl.calledAt > rl.reset * MsPerSecond
  /\ rl.retAt = rl.calledAt
  /\ ~limits[rl.ep].present

\* C32: in every reachable state of the egress manager (any sequence of
\* path registration, getNext, getCurrent, markFailed, markSuccess and time
\* passage) with a failure threshold >= 1, a path's disabled flag is true
\* exactly when its failure count is >= the threshold.
C32_DisabledIffThreshold ==
  pmOpt.maxFailures >= 1 =>
    \A u \in Registered :
      status[u].disabled <=> status[u].failures >= pmOpt.maxFailures

\* one path failed once more after it was disabled, the other is one
\* failure short of the threshold
C32_Witness ==
  /\ pmOpt.maxFailures = 2
  /\ Len(proxies) = 2
  /\ status[1].disabled /\ status[1].failures = 3
  /\ ~status[2].disabled /\ status[2].failures = 1

\* C38: after any sequence of operations on the egress manager, getNext()
\* returns no path only when no path is registered, and any path it returns
\* has disabled = false at the moment of return.
C38_GetNextReturnsEnabled ==
  pmRet.op = "getNext" =>
    /\ pmRet.url = 0 <=> Len(proxies) = 0
    /\ pmRet.url # 0 => (pmRet.url \in Registered /\ ~status[pmRet.url].disabled)

\* the pointer was on a disabled path: the call skipped it and returned the
\* other, enabled one
C38_Witness ==
  /\ pmRet.op = "getNext" /\ ~pmRet.amnesty
  /\ Len(proxies) = 2
  /\ pmRet.url = 2
  /\ status[1].disabled /\ ~status[2].disabled
  /\ currentIndex = 0

\* C33: after an orchestrated call fails at the transport level while
\* dispatched over path p, with at least two registered paths that all remain
\* non-disabled, the next orchestrated call is dispatched over a path other
\* than p.
C33_RotatesAwayAfterFailure ==
  (/\ cl.pc = "inflight"
   /\ cl.prevFailed /\ cl.prevUsed # 0
   /\ Len(proxies) >= 2
   /\ \A u \in Registered : ~status[u].disabled) =>
    cl.used # cl.prevUsed


\* C35: while no call has failed, two calls in progress on a client with at
\* least two egress paths, all enabled, are dispatched over different
\* paths, however they interleave at their awaits
C35_NoLostAdvance ==
  (/\ Len(proxies) >= 2
   /\ NoneFailed
   /\ \A i \in Callers : pair[i].nth # 0) =>
    /\ pair[1].used # 0
    /\ pair[2].used # 0
    /\ pair[1].used # pair[2].used

\* the call that began first is overtaken while it waits for the limiter,
\* and both calls return a payload
C35_Witness ==
  /\ Len(proxies) >= 2
  /\ NoneFailed
  /\ \A i \in Callers : pair[i].pc = "done" /\ pair[i].result = "payload"
  /\ pair[1].began = 1
  /\ pair[1].nth = 2
  /\ pair[1].used # pair[2].used


\* a refresh() that ends in its catch block or at the missing bundle URL
RefreshFailed == qRet'.op = "refresh" /\ qRet'.outcome # "ok"

\* C40: a refresh() that takes its failure path and returns the static
\* table leaves the cached mapping and its fetch timestamp as they were
C40_FailedRefreshKeepsCache ==
  [][RefreshFailed =>
       /\ qRet'.table = FALLBACK_QUERY_IDS
       /\ cache' = cache]_vars


\* a call that resolved a name of the static table
ResolvedStatic ==
  /\ qRet.op \in {"get", "graphql"}
  /\ FALLBACK_QUERY_IDS[qRet.name] # 0

\* C39: for a name of the static table, resolve() returns an id and does
\* not fail, whatever the cache file held when it was loaded, however old
\* the cache is, and after any refresh() calls
C39_StaticNamesAlwaysResolve ==
  ResolvedStatic => (~qRet.threw /\ qRet.id # 0)


\* the number of items in pages 1..k of the server
RECURSIVE ItemsUpTo(_)
ItemsUpTo(k) == IF k = 0 THEN 0 ELSE ItemsUpTo(k - 1) + Len(PageItems(k))

\* the last start of a run at page 1 (with no cursor), and the pages
\* fetched since, by that run and by the runs that resumed from it
FreshStarts == {j \in Idx : log[j].e = "start" /\ log[j].cur = NoCursor}

LastFreshStart == CHOOSE j \in FreshStarts : \A k \in FreshStarts : k <= j

PagesSincePageOne ==
  Cardinality({j \in Idx : log[j].e = "ok" /\ j > LastFreshStart})

\* C34: in a checkpoint written by fetchAll, pagesFetched is the number of
\* pages fetched since page 1, over the runs resumed from, and totalItems
\* is the number of items in those pages
C34_CheckpointCountsAll ==
  file.present =>
    /\ file.pagesFetched = PagesSincePageOne
    /\ file.totalItems = ItemsUpTo(PagesSincePageOne)


\* the starts of the runs that loaded a checkpoint with a cursor
ResumedStarts == {s \in Idx : log[s].e = "start" /\ log[s].cur # NoCursor}

\* the page-fetch calls of the run that started at event s
CallsOfRun(s) ==
  Cardinality({j \in Idx : j > s /\ log[j].e = "call" /\ SameRun(s, j)})

\* max(0, m - k)
Remaining(m, k) == IF m > k THEN m - k ELSE 0

\* C36: with maxPages = m >= 1, a run that loaded a checkpoint with a
\* cursor and pagesFetched = k makes at most max(0, m - k) page-fetch
\* calls; a run that loads a checkpoint taken at the cap makes none
C36_CapCountsEarlierRuns ==
  opt.maxPages >= 1 =>
    \A s \in ResumedStarts : CallsOfRun(s) <= Remaining(opt.maxPages, log[s].n)

\* the capped command was run to its cap of two pages and was run again:
\* the second run loaded the checkpoint and returned without a call
C36_Witness ==
  /\ opt.maxPages = 2 /\ opt.all /\ opt.resume
  /\ run = 2 /\ pc = "done"
  /\ Len(Sel("call")) = 2
  /\ \E s \in ResumedStarts : log[s].n = 2 /\ CallsOfRun(s) = 0
  /\ file.present /\ file.pagesFetched = 2


\* the pages fetchAll asked the page-fetch function for, in order
FetchAllCalls == [k \in 1..Len(Sel("call")) |-> log[Sel("call")[k]].page]

\* C37: over the same options, resume file and server, stream() drained
\* by its consumer and fetchAll() make the same page-fetch calls and leave
\* the resume file in the same state
C37_StreamMatchesFetchAll ==
  (pc = "done" /\ sm.pc = "done") =>
    /\ sm.calls = FetchAllCalls
    /\ sm.file = file

====
